---- MODULE Spec2Model ----
(***************************************************************************)
(* The incrementally rehashed hash table of redis_server/rdict.py (rDict,  *)
(* two dictht generations, dictRehash, dictScan) as a state machine.       *)
(*                                                                         *)
(* A dictht is a record; its table is a sequence of buckets, bucket i of   *)
(* the code being table[i + 1] here, and a bucket is the chain of entries  *)
(* hanging off it, head first (the empty chain is Python's None).  Every   *)
(* function of the code is an operator that returns the dict it leaves     *)
(* behind together with its return value and whether it raised.            *)
(***************************************************************************)
EXTENDS Integers, Sequences, FiniteSets, TLC

\* ---------------------------------------------------------------- bounds
MaxKey == 5
MaxVal == 1
MaxRehashN == 2
MaxExpand == 5
MaxBatches == 2
MaxFill == 129
MaxForce == 25
MaxIterKey == 3
MaxSafeKey == 4
MaxRandom == 11
MaxCount == 6
MaxCursor == 7
MaxStart == 7

Keys == 1..MaxKey
Vals == 1..MaxVal
\* the keys of a dict that is filled key after key
FillKeys == 1..MaxFill
\* the keys of a dict that is iterated
IterKeys == 1..MaxIterKey
\* the keys of a dict that is changed under a safe iterator: as many as the
\* buckets of the initial table, so that an add can finalise a rehash and
\* start the next one
SafeKeys == 1..MaxSafeKey

\* ------------------------------------------------------------- constants
DICT_OK == 0
DICT_ERR == 1
DICT_HT_INITIAL_SIZE == 4
dict_force_resize_ratio == 5
RehashBatch == 100

\* the value of an entry whose value was never set (dictEntryVal.val = None)
NoVal == 0
\* the entry handle a lookup returns when there is no entry (Python None)
NoEntry == <<>>
\* the key that stands for no entry where an entry is named by its key
NoKey == NoVal

\* ------------------------------------------------------------ bit helpers
RECURSIVE BitAnd(_, _)
BitAnd(a, b) ==
    IF a = 0 \/ b = 0 THEN 0
    ELSE (a % 2) * (b % 2) + 2 * BitAnd(a \div 2, b \div 2)

\* ------------------------------------------------------------ structures
dictht ==
    [table |-> <<>>, size |-> 0, sizemask |-> 0, used |-> 0]

_dictReset(ht) ==
    [ht EXCEPT !.table = <<>>, !.size = 0, !.sizemask = 0, !.used = 0]

\* dictIdentityHashFunction, and the function that a dictType whose
\* hashFunction it is carries when the keys are Keys
dictIdentityHashFunction_(key) == key
dictIdentityHashFunction == [key \in Keys |-> dictIdentityHashFunction_(key)]

rDict(hf) ==
    [type |-> [hashFunction |-> hf],
     ht |-> [t \in 0..1 |-> dictht],
     rehashidx |-> -1,
     iterators |-> 0]

dictIsRehashing(d) == d.rehashidx # -1

dictHashKey(d, key) == d.type.hashFunction[key]

dictCompareKeys(d, key1, key2) == key1 = key2

dictSize(d) == d.ht[0].used + d.ht[1].used

\* struct assignment of csix: the copy of a dictht
c_assignment(ht) == ht

\* what a function hands back: the dict, the return value, raised or not
Ret(d, ret) == [d |-> d, ret |-> ret, fault |-> FALSE]
Raise(d) == [d |-> d, ret |-> -1, fault |-> TRUE]

\* ---------------------------------------------------------------- resize
RECURSIVE NextPowerFrom(_, _)
NextPowerFrom(i, size) ==
    IF i >= size THEN i ELSE NextPowerFrom(i * 2, size)

\* _dictNextPower that rounds twice the size up
_dictNextPowerDouble(size) == NextPowerFrom(DICT_HT_INITIAL_SIZE, 2 * size)

\* _dictNextPower with `i > size` for `i >= size`
_dictNextPowerAbove(size) == NextPowerFrom(DICT_HT_INITIAL_SIZE, size + 1)

\* (the LONG_MAX cap is far above every size of this model)
_dictNextPower(size) == NextPowerFrom(DICT_HT_INITIAL_SIZE, size)

\* dictExpand without the test `d.ht[0].used > size`
dictExpandAnySize(d, size) ==
    LET realsize == _dictNextPower(size)
        n == [table |-> [i \in 1..realsize |-> <<>>],
              size |-> realsize,
              sizemask |-> realsize - 1,
              used |-> 0]
    IN  IF dictIsRehashing(d)
        THEN Ret(d, DICT_ERR)
        ELSE IF d.ht[0].table = <<>>
        THEN Ret([d EXCEPT !.ht[0] = n], DICT_OK)
        ELSE Ret([d EXCEPT !.ht[1] = n, !.rehashidx = 0], DICT_OK)

dictExpand(d, size) ==
    LET realsize == _dictNextPower(size)
        n == [table |-> [i \in 1..realsize |-> <<>>],
              size |-> realsize,
              sizemask |-> realsize - 1,
              used |-> 0]
    IN  IF dictIsRehashing(d) \/ d.ht[0].used > size
        THEN Ret(d, DICT_ERR)
        ELSE IF d.ht[0].table = <<>>
        THEN Ret([d EXCEPT !.ht[0] = n], DICT_OK)
        ELSE Ret([d EXCEPT !.ht[1] = n, !.rehashidx = 0], DICT_OK)

Min(a, b) == IF a < b THEN a ELSE b

dictResize(d, can_resize) ==
    IF ~can_resize \/ dictIsRehashing(d)
    THEN Ret(d, DICT_ERR)
    ELSE dictExpand(d, Min(d.ht[0].used, DICT_HT_INITIAL_SIZE))

\* _dictExpandIfNeeded with `used > size` for `used >= size`
_dictExpandIfNeededStrict(d, can_resize) ==
    IF dictIsRehashing(d) THEN Ret(d, DICT_OK)
    ELSE IF d.ht[0].size = 0 THEN dictExpand(d, DICT_HT_INITIAL_SIZE)
    ELSE IF d.ht[0].used > d.ht[0].size
            /\ (can_resize
                \/ d.ht[0].used \div d.ht[0].size > dict_force_resize_ratio)
    THEN dictExpand(d, d.ht[0].used * 2)
    ELSE Ret(d, DICT_OK)

\* _dictExpandIfNeeded that forces the expansion at the ratio itself
_dictExpandIfNeededAtRatio(d, can_resize) ==
    IF dictIsRehashing(d) THEN Ret(d, DICT_OK)
    ELSE IF d.ht[0].size = 0 THEN dictExpand(d, DICT_HT_INITIAL_SIZE)
    ELSE IF d.ht[0].used >= d.ht[0].size
            /\ (can_resize
                \/ d.ht[0].used \div d.ht[0].size >= dict_force_resize_ratio)
    THEN dictExpand(d, d.ht[0].used * 2)
    ELSE Ret(d, DICT_OK)

_dictExpandIfNeeded(d, can_resize) ==
    IF dictIsRehashing(d) THEN Ret(d, DICT_OK)
    ELSE IF d.ht[0].size = 0 THEN dictExpand(d, DICT_HT_INITIAL_SIZE)
    ELSE IF d.ht[0].used >= d.ht[0].size
            /\ (can_resize
                \/ d.ht[0].used \div d.ht[0].size > dict_force_resize_ratio)
    THEN dictExpand(d, d.ht[0].used * 2)
    ELSE Ret(d, DICT_OK)

\* ---------------------------------------------------------------- rehash
\* the walk of dictRehash without `d.ht[1].used += 1`
RECURSIVE MoveChainNoCount(_, _, _)
MoveChainNoCount(d, h1, chain) ==
    IF chain = <<>> THEN h1
    ELSE LET de == Head(chain)
             h == BitAnd(dictHashKey(d, de.key), h1.sizemask)
         IN  MoveChainNoCount(d,
                              [h1 EXCEPT !.table[h + 1] = <<de>> \o @],
                              Tail(chain))

\* the walk `while de:` of dictRehash: every entry of the chain, from its
\* head, is pushed on the head of its ht[1] bucket
RECURSIVE MoveChain(_, _, _)
MoveChain(d, h1, chain) ==
    IF chain = <<>> THEN h1
    ELSE LET de == Head(chain)
             h == BitAnd(dictHashKey(d, de.key), h1.sizemask)
         IN  MoveChain(d,
                       [h1 EXCEPT !.table[h + 1] = <<de>> \o @,
                                  !.used = @ + 1],
                       Tail(chain))

\* `while d.ht[0].table[d.rehashidx] is None: d.rehashidx += 1`;
\* -1 when the index runs off the table (IndexError)
RECURSIVE SkipEmpty(_, _)
SkipEmpty(ht, idx) ==
    IF idx >= Len(ht.table) THEN -1
    ELSE IF ht.table[idx + 1] = <<>> THEN SkipEmpty(ht, idx + 1)
    ELSE idx

\* the pass without `d.ht[0].table[d.rehashidx] = None`
RehashBucketKeepChain(d) ==
    IF d.ht[0].used = 0
    THEN Ret([d EXCEPT !.ht = [t \in 0..1 |->
                                  IF t = 0 THEN c_assignment(d.ht[1])
                                  ELSE _dictReset(d.ht[1])],
                       !.rehashidx = -1], 0)
    ELSE IF ~(d.ht[0].size > d.rehashidx) THEN Raise(d)
    ELSE LET idx == SkipEmpty(d.ht[0], d.rehashidx)
         IN  IF idx = -1 THEN Raise(d)
             ELSE LET chain == d.ht[0].table[idx + 1]
                      h1 == MoveChain(d, d.ht[1], chain)
                  IN  Ret([d EXCEPT !.ht[0].used = @ - Len(chain),
                                    !.ht[1] = h1,
                                    !.rehashidx = idx + 1], 1)

\* one pass of the body of `while (n):`; ret 0 when it finalised and
\* returned, 1 when the loop goes on
RehashBucket(d) ==
    IF d.ht[0].used = 0
    THEN Ret([d EXCEPT !.ht = [t \in 0..1 |->
                                  IF t = 0 THEN c_assignment(d.ht[1])
                                  ELSE _dictReset(d.ht[1])],
                       !.rehashidx = -1], 0)
    ELSE IF ~(d.ht[0].size > d.rehashidx) THEN Raise(d)
    ELSE LET idx == SkipEmpty(d.ht[0], d.rehashidx)
         IN  IF idx = -1 THEN Raise(d)
             ELSE LET chain == d.ht[0].table[idx + 1]
                      h1 == MoveChain(d, d.ht[1], chain)
                  IN  Ret([d EXCEPT !.ht[0].table[idx + 1] = <<>>,
                                    !.ht[0].used = @ - Len(chain),
                                    !.ht[1] = h1,
                                    !.rehashidx = idx + 1], 1)

\* `while (n):` run n times, as the first half of the passes and then the
\* rest, unless a pass returned
RECURSIVE dictRehashLoop(_, _)
dictRehashLoop(d, n) ==
    IF n = 0 THEN Ret(d, 1)
    ELSE IF n = 1 THEN RehashBucket(d)
    ELSE LET a == dictRehashLoop(d, n \div 2)
         IN  IF a.fault \/ a.ret = 0 THEN a
             ELSE dictRehashLoop(a.d, n - (n \div 2))

dictRehash(d, n) ==
    IF ~dictIsRehashing(d) THEN Ret(d, 0) ELSE dictRehashLoop(d, n)

\* _dictRehashStep that moves two buckets
_dictRehashStepTwo(d) ==
    IF d.iterators = 0 THEN dictRehash(d, 2) ELSE Ret(d, 0)

\* _dictRehashStep that moves nothing
_dictRehashStepPaused(d) == Ret(d, 0)

_dictRehashStep(d) ==
    IF d.iterators = 0 THEN dictRehash(d, 1) ELSE Ret(d, 0)

\* the step every lookup and mutation takes first when mid-rehash
StepIfRehashing(d) ==
    IF dictIsRehashing(d) THEN _dictRehashStep(d) ELSE Ret(d, 0)

\* dictRehashMilliseconds that returns after its first batch
dictRehashMillisecondsOneBatch(d, batches, rehashes) ==
    LET r == dictRehash(d, RehashBatch)
    IN  IF r.fault THEN r
        ELSE IF r.ret = 0 THEN Ret(r.d, rehashes)
        ELSE Ret(r.d, rehashes + RehashBatch)

\* the batches of dictRehashMilliseconds; the clock passes the deadline
\* after `batches` batches that each returned 1
RECURSIVE dictRehashMilliseconds(_, _, _)
dictRehashMilliseconds(d, batches, rehashes) ==
    LET r == dictRehash(d, RehashBatch)
    IN  IF r.fault THEN r
        ELSE IF r.ret = 0 THEN Ret(r.d, rehashes)
        ELSE IF batches <= 1 THEN Ret(r.d, rehashes + RehashBatch)
        ELSE dictRehashMilliseconds(r.d, batches - 1, rehashes + RehashBatch)

\* ------------------------------------------------------ lookup, mutation
\* the walk of one bucket's chain for a key: the position of the entry
\* that has it (1 is the head), 0 when the chain ends without it
RECURSIVE ChainPos(_, _, _, _)
ChainPos(d, chain, key, p) ==
    IF p > Len(chain) THEN 0
    ELSE IF dictCompareKeys(d, key, chain[p].key) THEN p
    ELSE ChainPos(d, chain, key, p + 1)

\* `d.ht[table].table[idx]` is an IndexError outside the table
InTable(ht, idx) == idx >= 0 /\ idx < Len(ht.table)

\* an entry handle is <<table, bucket, position in the chain>>
EntryAt(d, he) == d.ht[he[1]].table[he[2] + 1][he[3]]

dictGetKey(d, he) == EntryAt(d, he).key

dictGetVal(d, he) == EntryAt(d, he).v

dictSetVal(d, entry, val) ==
    [d EXCEPT !.ht[entry[1]].table[entry[2] + 1][entry[3]].v = val]

\* the probe loop of dictFind that never goes on to ht[1]
FindFromFirstOnly(d, key, t) ==
    LET idx == BitAnd(dictHashKey(d, key), d.ht[t].sizemask)
    IN  IF ~InTable(d.ht[t], idx) THEN Raise(d)
        ELSE LET p == ChainPos(d, d.ht[t].table[idx + 1], key, 1)
             IN  IF p # 0 THEN Ret(d, <<t, idx, p>>) ELSE Ret(d, NoEntry)

\* the two-table probe loop of dictFind, from table t on
RECURSIVE FindFrom(_, _, _)
FindFrom(d, key, t) ==
    LET idx == BitAnd(dictHashKey(d, key), d.ht[t].sizemask)
    IN  IF ~InTable(d.ht[t], idx) THEN Raise(d)
        ELSE LET p == ChainPos(d, d.ht[t].table[idx + 1], key, 1)
             IN  IF p # 0 THEN Ret(d, <<t, idx, p>>)
                 ELSE IF ~dictIsRehashing(d) \/ t = 1 THEN Ret(d, NoEntry)
                 ELSE FindFrom(d, key, t + 1)

dictFind(d, key) ==
    IF d.ht[0].size = 0 THEN Ret(d, NoEntry)
    ELSE LET s == StepIfRehashing(d)
         IN  IF s.fault THEN Raise(s.d) ELSE FindFrom(s.d, key, 0)

dictFetchValue(d, key) ==
    LET f == dictFind(d, key)
    IN  IF f.fault THEN f
        ELSE IF f.ret = NoEntry THEN Ret(f.d, NoVal)
        ELSE Ret(f.d, dictGetVal(f.d, f.ret))

\* the probe loop of _dictKeyIndex that never goes on to ht[1]
KeyIndexFromFirstOnly(d, key, t) ==
    LET i0 == BitAnd(dictHashKey(d, key), d.ht[0].sizemask)
        i1 == BitAnd(dictHashKey(d, key), d.ht[1].sizemask)
    IN  IF ChainPos(d, d.ht[0].table[i0 + 1], key, 1) # 0 THEN Ret(d, -1)
        ELSE IF dictIsRehashing(d) THEN Ret(d, i1)
        ELSE Ret(d, i0)

\* the probe loop of _dictKeyIndex, from table t on: -1 when the key is
\* there, else the index in the last table probed
RECURSIVE KeyIndexFrom(_, _, _)
KeyIndexFrom(d, key, t) ==
    LET idx == BitAnd(dictHashKey(d, key), d.ht[t].sizemask)
    IN  IF ~InTable(d.ht[t], idx) THEN Raise(d)
        ELSE IF ChainPos(d, d.ht[t].table[idx + 1], key, 1) # 0
        THEN Ret(d, -1)
        ELSE IF ~dictIsRehashing(d) \/ t = 1 THEN Ret(d, idx)
        ELSE KeyIndexFrom(d, key, t + 1)

\* _dictKeyIndex that does not look for the key in the chains
_dictKeyIndexNoLookup(d, key, can_resize) ==
    LET e == _dictExpandIfNeeded(d, can_resize)
        t == IF dictIsRehashing(e.d) THEN 1 ELSE 0
    IN  IF e.ret = DICT_ERR THEN Ret(e.d, -1)
        ELSE Ret(e.d, BitAnd(dictHashKey(e.d, key), e.d.ht[t].sizemask))

_dictKeyIndex(d, key, can_resize) ==
    LET e == _dictExpandIfNeeded(d, can_resize)
    IN  IF e.ret = DICT_ERR THEN Ret(e.d, -1)
        ELSE KeyIndexFrom(e.d, key, 0)

\* dictAddRaw without `ht.used += 1`
dictAddRawNoCount(d, key, can_resize) ==
    LET s == StepIfRehashing(d)
    IN  IF s.fault THEN Raise(s.d)
        ELSE LET ki == _dictKeyIndex(s.d, key, can_resize)
             IN  IF ki.fault THEN ki
                 ELSE IF ki.ret = -1 THEN Ret(ki.d, NoEntry)
                 ELSE LET t == IF dictIsRehashing(ki.d) THEN 1 ELSE 0
                          entry == [key |-> key, v |-> NoVal]
                      IN  Ret([ki.d EXCEPT
                                  !.ht[t].table[ki.ret + 1] = <<entry>> \o @],
                              <<t, ki.ret, 1>>)

\* dictAddRaw that puts every new entry in ht[0]
dictAddRawFirstTable(d, key, can_resize) ==
    LET s == StepIfRehashing(d)
    IN  IF s.fault THEN Raise(s.d)
        ELSE LET ki == _dictKeyIndex(s.d, key, can_resize)
                 idx == BitAnd(dictHashKey(ki.d, key), ki.d.ht[0].sizemask)
             IN  IF ki.fault THEN ki
                 ELSE IF ki.ret = -1 THEN Ret(ki.d, NoEntry)
                 ELSE LET entry == [key |-> key, v |-> NoVal]
                      IN  Ret([ki.d EXCEPT
                                  !.ht[0].table[idx + 1] = <<entry>> \o @,
                                  !.ht[0].used = @ + 1],
                              <<0, idx, 1>>)

\* dictAddRaw that links the entry behind the last one of the chain
dictAddRawAtTail(d, key, can_resize) ==
    LET s == StepIfRehashing(d)
    IN  IF s.fault THEN Raise(s.d)
        ELSE LET ki == _dictKeyIndex(s.d, key, can_resize)
             IN  IF ki.fault THEN ki
                 ELSE IF ki.ret = -1 THEN Ret(ki.d, NoEntry)
                 ELSE LET t == IF dictIsRehashing(ki.d) THEN 1 ELSE 0
                          entry == [key |-> key, v |-> NoVal]
                      IN  Ret([ki.d EXCEPT
                                  !.ht[t].table[ki.ret + 1] = @ \o <<entry>>,
                                  !.ht[t].used = @ + 1],
                              <<t, ki.ret,
                                Len(ki.d.ht[t].table[ki.ret + 1]) + 1>>)

dictAddRaw(d, key, can_resize) ==
    LET s == StepIfRehashing(d)
    IN  IF s.fault THEN Raise(s.d)
        ELSE LET ki == _dictKeyIndex(s.d, key, can_resize)
             IN  IF ki.fault THEN ki
                 ELSE IF ki.ret = -1 THEN Ret(ki.d, NoEntry)
                 ELSE LET t == IF dictIsRehashing(ki.d) THEN 1 ELSE 0
                          entry == [key |-> key, v |-> NoVal]
                      IN  Ret([ki.d EXCEPT
                                  !.ht[t].table[ki.ret + 1] = <<entry>> \o @,
                                  !.ht[t].used = @ + 1],
                              <<t, ki.ret, 1>>)

\* dictAdd without the dictSetVal call
dictAddNoSetVal(d, key, val, can_resize) ==
    LET r == dictAddRaw(d, key, can_resize)
    IN  IF r.fault THEN r
        ELSE IF r.ret = NoEntry THEN Ret(r.d, DICT_ERR)
        ELSE Ret(r.d, DICT_OK)

dictAdd(d, key, val, can_resize) ==
    LET r == dictAddRaw(d, key, can_resize)
    IN  IF r.fault THEN r
        ELSE IF r.ret = NoEntry THEN Ret(r.d, DICT_ERR)
        ELSE Ret(dictSetVal(r.d, r.ret, val), DICT_OK)

\* dictReplace without the dictSetVal call on the entry found
dictReplaceKeepVal(d, key, val, can_resize) ==
    LET a == dictAdd(d, key, val, can_resize)
    IN  IF a.fault THEN a
        ELSE IF a.ret = DICT_OK THEN Ret(a.d, 1)
        ELSE LET f == dictFind(a.d, key)
             IN  IF f.fault \/ f.ret = NoEntry THEN Raise(f.d)
                 ELSE Ret(f.d, 0)

dictReplace(d, key, val, can_resize) ==
    LET a == dictAdd(d, key, val, can_resize)
    IN  IF a.fault THEN a
        ELSE IF a.ret = DICT_OK THEN Ret(a.d, 1)
        ELSE LET f == dictFind(a.d, key)
             IN  IF f.fault \/ f.ret = NoEntry THEN Raise(f.d)
                 ELSE Ret(dictSetVal(f.d, f.ret, val), 0)

\* the unlink that always drops the head of the chain
RemoveHead(chain, p) == Tail(chain)

\* the unlink of dictGenericDelete: prev_he.next = he.next, or the bucket
\* takes he.next when he is the head
RemoveAt(chain, p) ==
    SubSeq(chain, 1, p - 1) \o SubSeq(chain, p + 1, Len(chain))

\* the loop of dictGenericDelete that never goes on to ht[1]
DeleteFromFirstOnly(d, key, t) ==
    LET idx == BitAnd(dictHashKey(d, key), d.ht[t].sizemask)
    IN  IF ~InTable(d.ht[t], idx) THEN Raise(d)
        ELSE LET p == ChainPos(d, d.ht[t].table[idx + 1], key, 1)
             IN  IF p # 0
                 THEN Ret([d EXCEPT !.ht[t].table[idx + 1] = RemoveAt(@, p),
                                    !.ht[t].used = @ - 1],
                          DICT_OK)
                 ELSE Ret(d, DICT_ERR)

\* the two-table loop of dictGenericDelete, from table t on
RECURSIVE DeleteFrom(_, _, _)
DeleteFrom(d, key, t) ==
    LET idx == BitAnd(dictHashKey(d, key), d.ht[t].sizemask)
    IN  IF ~InTable(d.ht[t], idx) THEN Raise(d)
        ELSE LET p == ChainPos(d, d.ht[t].table[idx + 1], key, 1)
             IN  IF p # 0
                 THEN Ret([d EXCEPT !.ht[t].table[idx + 1] = RemoveAt(@, p),
                                    !.ht[t].used = @ - 1],
                          DICT_OK)
                 ELSE IF ~dictIsRehashing(d) \/ t = 1 THEN Ret(d, DICT_ERR)
                 ELSE DeleteFrom(d, key, t + 1)

dictGenericDelete(d, key) ==
    IF d.ht[0].size = 0 THEN Ret(d, DICT_ERR)
    ELSE LET s == StepIfRehashing(d)
         IN  IF s.fault THEN Raise(s.d) ELSE DeleteFrom(s.d, key, 0)

dictDelete(d, key) == dictGenericDelete(d, key)

\* ----------------------------------------------------------------- clear
\* release of csix: nothing is left to do for a Python object
zfree(x) == x

\* `while i < ht.size and ht.used > 0:` of _dictClear with i already
\* incremented to i + 1 when the bucket is read; every entry of the chain
\* takes 1 off ht.used.  (The callback runs when i & 65535 = 0 only, at no
\* index of the tables here.)
RECURSIVE ClearLoop(_, _)
ClearLoop(ht, i) ==
    IF ~(i < ht.size /\ ht.used > 0)
    THEN [ht |-> ht, fault |-> FALSE]
    ELSE IF ~InTable(ht, i + 1) THEN [ht |-> ht, fault |-> TRUE]
    ELSE ClearLoop([ht EXCEPT !.used = @ - Len(ht.table[i + 2])], i + 1)

_dictClear(d, ht) ==
    LET c == ClearLoop(ht, 0)
    IN  IF c.fault THEN c
        ELSE [ht |-> _dictReset(zfree(c.ht)), fault |-> FALSE]

\* both _dictClear calls of dictEmpty and dictRelease
ClearBoth(d) ==
    LET c0 == _dictClear(d, d.ht[0])
        d0 == [d EXCEPT !.ht[0] = c0.ht]
        c1 == _dictClear(d0, d0.ht[1])
    IN  IF c0.fault THEN Raise(d0)
        ELSE IF c1.fault THEN Raise([d0 EXCEPT !.ht[1] = c1.ht])
        ELSE Ret([d0 EXCEPT !.ht[1] = c1.ht], DICT_OK)

dictRelease(d) ==
    LET c == ClearBoth(d)
    IN  IF c.fault THEN c ELSE Ret(zfree(c.d), DICT_OK)

\* dictEmpty without `d.rehashidx = -1`
dictEmptyKeepIndex(d) ==
    LET c == ClearBoth(d)
    IN  IF c.fault THEN c
        ELSE Ret([c.d EXCEPT !.iterators = 0], DICT_OK)

dictEmpty(d) ==
    LET c == ClearBoth(d)
    IN  IF c.fault THEN c
        ELSE Ret([c.d EXCEPT !.rehashidx = -1, !.iterators = 0], DICT_OK)

\* ------------------------------------------------------------------ scan
\* A cursor is an unsigned integer of any width; it is kept as the set of
\* the positions of its 1 bits, so that 64-bit values stay exact.
Bits32 == 0..31

\* the 1 bits of a small natural number, from position i on
RECURSIVE BitsOf(_, _)
BitsOf(n, i) ==
    IF n = 0 THEN {}
    ELSE (IF n % 2 = 1 THEN {i} ELSE {}) \cup BitsOf(n \div 2, i + 1)

\* the number whose 1 bits are S (used on the bits under a mask only)
RECURSIVE ToNat(_)
ToNat(S) ==
    IF S = {} THEN 0
    ELSE LET b == CHOOSE x \in S : \A y \in S : y <= x
         IN  2 ^ b + ToNat(S \ {b})

MutableUInt32(v) == v \cap Bits32

\* rev: the bits as a string of at least 64 characters, reversed
rev(v) ==
    LET w == IF \E b \in v : b > 63
             THEN 1 + CHOOSE x \in v : \A y \in v : y <= x
             ELSE 64
    IN  { w - 1 - b : b \in v }

\* v + 1 on an unbounded Python int
Inc(v) ==
    LET z == CHOOSE x \in 0..(Cardinality(v)) :
                 x \notin v /\ \A y \in 0..(x - 1) : y \in v
    IN  (v \ (0..(z - 1))) \cup {z}

RECURSIVE ChainKeySeq(_)
ChainKeySeq(chain) ==
    IF chain = <<>> THEN <<>>
    ELSE <<Head(chain).key>> \o ChainKeySeq(Tail(chain))

\* dictScan: ret is the cursor returned, seen the keys handed to fn in
\* order, bucket the index read in ht[0] (-1 when none was read)
dictScan(d, cursor) ==
    LET v == MutableUInt32(cursor)
    IN  IF dictSize(d) = 0
        THEN [ret |-> {}, seen |-> <<>>, bucket |-> -1, fault |-> FALSE]
        ELSE IF ~dictIsRehashing(d)
        THEN LET t0 == d.ht[0]
                 m0 == BitsOf(t0.sizemask, 0)
                 idx == ToNat(v \cap m0)
             IN  IF ~InTable(t0, idx)
                 THEN [ret |-> {}, seen |-> <<>>, bucket |-> idx,
                       fault |-> TRUE]
                 ELSE [ret |-> rev(Inc(rev(v \cup (Bits32 \ m0)))),
                       seen |-> ChainKeySeq(t0.table[idx + 1]),
                       bucket |-> idx,
                       fault |-> FALSE]
        \* mid-rehash `while de:` reads de before any assignment to it
        ELSE [ret |-> {}, seen |-> <<>>, bucket |-> -1, fault |-> TRUE]

\* --------------------------------------------------------- observations
RECURSIVE ChainKeys(_)
ChainKeys(chain) ==
    IF chain = <<>> THEN {} ELSE {Head(chain).key} \cup ChainKeys(Tail(chain))

\* the keys reachable through the chains of generation t
TableKeys(d, t) ==
    UNION { ChainKeys(d.ht[t].table[i]) : i \in 1..Len(d.ht[t].table) }

ReachableKeys(d) == TableKeys(d, 0) \cup TableKeys(d, 1)

\* ------------------------------------------------------------ random key
\* dictGetRandomKey with c_random() returning h in the bucket loop, at the
\* draw that ends the loop, and r for the position in the chain; no result
\* (the empty set) for an h on which the loop draws again
dictGetRandomKey(d, h, r) ==
    IF dictSize(d) = 0 THEN { Ret(d, NoEntry) }
    ELSE LET s == StepIfRehashing(d)
         IN  IF s.fault THEN { Raise(s.d) }
             ELSE LET d1 == s.d
                      s0 == d1.ht[0].size
                      hh == IF dictIsRehashing(d1)
                            THEN h % (s0 + d1.ht[1].size)
                            ELSE BitAnd(h, d1.ht[0].sizemask)
                      in1 == /\ dictIsRehashing(d1)
                             /\ hh >= s0
                             /\ d1.ht[1].table[hh - s0 + 1] # <<>>
                      \* `a and b or c`: c is evaluated when b is None
                      t == IF in1 THEN 1 ELSE 0
                      idx == IF in1 THEN hh - s0 ELSE hh
                  IN  IF ~InTable(d1.ht[t], idx) THEN { Raise(d1) }
                      ELSE IF d1.ht[t].table[idx + 1] = <<>> THEN {}
                      ELSE { Ret(d1, <<t, idx,
                                       (r % Len(d1.ht[t].table[idx + 1])) + 1>>) }

\* `while size:` of dictGetRandomKeys on table j from bucket i: des is the
\* list of entry handles appended so far; done when `stored == count` made
\* the function return
RECURSIVE WalkTable(_, _, _, _, _, _)
WalkTable(d, j, i, size, des, count) ==
    IF size = 0 THEN [des |-> des, done |-> FALSE, fault |-> FALSE]
    ELSE IF ~InTable(d.ht[j], i)
    THEN [des |-> des, done |-> FALSE, fault |-> TRUE]
    ELSE LET chain == d.ht[j].table[i + 1]
             take == Min(Len(chain), count - Len(des))
             des2 == des \o [p \in 1..take |-> <<j, i, p>>]
         IN  IF chain # <<>> /\ Len(des2) = count
             THEN [des |-> des2, done |-> TRUE, fault |-> FALSE]
             ELSE WalkTable(d, j, BitAnd(i + 1, d.ht[j].sizemask),
                            size - 1, des2, count)

\* one pass of `while stored < count:`, c_random() returning r0 for ht[0]
\* and r1 for ht[1]; a pass that stores nothing would be repeated for ever
\* and counts as a fault, as the failing assert does
RECURSIVE RandomKeysLoop(_, _, _, _, _)
RandomKeysLoop(d, des, count, r0, r1) ==
    IF ~(Len(des) < count)
    THEN [d |-> d, ret |-> Len(des), des |-> des, fault |-> FALSE]
    ELSE LET w0 == WalkTable(d, 0, BitAnd(r0, d.ht[0].sizemask),
                             d.ht[0].size, des, count)
             w1 == WalkTable(d, 1, BitAnd(r1, d.ht[1].sizemask),
                             d.ht[1].size, w0.des, count)
         IN  IF w0.fault
             THEN [d |-> d, ret |-> -1, des |-> w0.des, fault |-> TRUE]
             ELSE IF w0.done
             THEN [d |-> d, ret |-> count, des |-> w0.des, fault |-> FALSE]
             ELSE IF ~dictIsRehashing(d)
             THEN [d |-> d, ret |-> -1, des |-> w0.des, fault |-> TRUE]
             ELSE IF w1.fault
             THEN [d |-> d, ret |-> -1, des |-> w1.des, fault |-> TRUE]
             ELSE IF w1.done
             THEN [d |-> d, ret |-> count, des |-> w1.des, fault |-> FALSE]
             ELSE IF Len(w1.des) = Len(des)
             THEN [d |-> d, ret |-> -1, des |-> w1.des, fault |-> TRUE]
             ELSE RandomKeysLoop(d, w1.des, count, r0, r1)

\* dictGetRandomKeys without `if dictSize(d) < count: count = dictSize(d)`
dictGetRandomKeysAnyCount(d, count, r0, r1) ==
    RandomKeysLoop(d, <<>>, count, r0, r1)

dictGetRandomKeys(d, count, r0, r1) ==
    RandomKeysLoop(d, <<>>, Min(count, dictSize(d)), r0, r1)

\* ------------------------------------------------------------- iterators
\* no dictIterator was handed out.  The fields of the class, and what the
\* caller of the iterator knows: the keys next() returned, whether it
\* returned None, how many other calls it made on the dict since it got
\* the iterator (ops), whether one of them changed which keys the dict has
\* or started an expansion (mutated)
NoIterator ==
    [held |-> FALSE, safe |-> 0, table |-> 0, index |-> -1,
     entry |-> NoKey, nextEntry |-> NoKey, fingerprint |-> <<>>,
     returned |-> <<>>, ended |-> FALSE, ops |-> 0, mutated |-> FALSE]

\* dictFingerprint mixes six integers into 64 bits: the identity, the size
\* and the used count of either table.  It is kept as the tuple of sizes
\* and used counts: two fingerprints that differ here come from different
\* integers (the 2^-64 collisions of the mix are left out), and every call
\* that puts another list in a table changes a size or a used count too.
dictFingerprint(d) ==
    <<d.ht[0].size, d.ht[0].used, d.ht[1].size, d.ht[1].used>>

dictGetIterator(d) ==
    [NoIterator EXCEPT !.held = TRUE]

dictGetSafeIterator(d) ==
    [dictGetIterator(d) EXCEPT !.safe = 1]

\* the key of the head of a chain, NoKey for the empty chain
HeadKey(chain) == IF chain = <<>> THEN NoKey ELSE Head(chain).key

\* `entry.next` of the entry that has this key, as a key
NextOf(d, key) ==
    LET where == UNION { { <<t, b>> : b \in
                             { c \in 0..(Len(d.ht[t].table) - 1) :
                                 ChainPos(d, d.ht[t].table[c + 1], key, 1)
                                     # 0 } } : t \in 0..1 }
    IN  IF where = {} THEN NoKey
        ELSE LET tb == CHOOSE x \in where : TRUE
                 chain == d.ht[tb[1]].table[tb[2] + 1]
                 p == ChainPos(d, chain, key, 1)
             IN  IF p = Len(chain) THEN NoKey ELSE chain[p + 1].key

\* `while 1:` of dictNext; i is the iterator, d its dict
RECURSIVE NextLoop(_, _)
NextLoop(d, i) ==
    IF i.entry = NoKey
    THEN LET first == i.index = -1 /\ i.table = 0
             d1 == IF first /\ i.safe = 1
                   THEN [d EXCEPT !.iterators = @ + 1] ELSE d
             i1 == [i EXCEPT !.fingerprint =
                                IF first /\ i.safe = 0
                                THEN dictFingerprint(d) ELSE @,
                             !.index = @ + 1]
             over == i1.index > d1.ht[i1.table].size
             i2 == IF over /\ dictIsRehashing(d1) /\ i1.table = 0
                   THEN [i1 EXCEPT !.table = 1, !.index = 0] ELSE i1
         IN  IF over /\ ~(dictIsRehashing(d1) /\ i1.table = 0)
             THEN [d |-> d1, it |-> i1, ret |-> NoKey, fault |-> FALSE]
             ELSE IF ~InTable(d1.ht[i2.table], i2.index)
             THEN [d |-> d1, it |-> i2, ret |-> NoKey, fault |-> TRUE]
             ELSE LET e == HeadKey(d1.ht[i2.table].table[i2.index + 1])
                  IN  IF e # NoKey
                      THEN [d |-> d1,
                            it |-> [i2 EXCEPT !.entry = e,
                                              !.nextEntry = NextOf(d1, e)],
                            ret |-> e, fault |-> FALSE]
                      ELSE NextLoop(d1, i2)
    ELSE IF i.nextEntry # NoKey
    THEN [d |-> d,
          it |-> [i EXCEPT !.entry = i.nextEntry,
                           !.nextEntry = NextOf(d, i.nextEntry)],
          ret |-> i.nextEntry, fault |-> FALSE]
    ELSE NextLoop(d, [i EXCEPT !.entry = NoKey])

dictNext(d, i) == NextLoop(d, i)

\* dictReleaseIterator: the dict it leaves, and whether the assert failed
dictReleaseIterator(d, i) ==
    IF ~(i.index = -1 /\ i.table = 0)
    THEN IF i.safe = 1
         THEN Ret([d EXCEPT !.iterators = @ - 1], 0)
         ELSE IF i.fingerprint = dictFingerprint(d)
         THEN Ret(d, 0) ELSE Raise(d)
    ELSE Ret(d, 0)

\* ----------------------------------------------------------------- state
VARIABLES
    dict,             \* the rDict
    dict_can_resize,  \* the module global of that name
    live,             \* per key, the value last stored and not deleted
    fault,            \* the last call raised
    pass,             \* the caller's scan loop: cursor fed back, keys seen
    it,               \* the dictIterator a caller holds
    toggle            \* the rehashidx the last dictDisableResize call met

vars == <<dict, dict_can_resize, live, fault, pass, it, toggle>>

\* what the dict operations leave alone
aux == <<pass, it, toggle>>

\* `live` of a key that is not in the dict
Absent == NoVal - 1

MaxScanCalls == 5

\* the cursors a caller passes: 0, small ones, ones with high bits set
Cursors ==
    { {}, {0, 1, 32}, 0..63 }

\* no scan loop was started yet
NoPass ==
    [active |-> FALSE, done |-> FALSE, start0 |-> FALSE, cursor |-> {},
     calls |-> 0, seen |-> {}, buckets |-> <<>>,
     clean |-> FALSE, grown |-> FALSE, present |-> {}, extra |-> FALSE]

\* dictDisableResize was not called
NoToggle == [called |-> FALSE, rehashidx |-> -1]

Init ==
    /\ dict = rDict(dictIdentityHashFunction)
    /\ dict_can_resize = TRUE
    /\ live = [k \in Keys |-> Absent]
    /\ fault = FALSE
    /\ pass = NoPass
    /\ it = NoIterator
    /\ toggle = NoToggle

\* dictAdd of a key of K
AddOf(K) ==
    \E k \in K, v \in Vals :
        \E r \in { dictAdd(dict, k, v, dict_can_resize) } :
            /\ dict' = r.d
            /\ fault' = r.fault
            /\ live' = IF ~r.fault /\ r.ret = DICT_OK
                       THEN [live EXCEPT ![k] = v] ELSE live
            /\ UNCHANGED dict_can_resize

AddRaw ==
    \E k \in Keys :
        \E r \in { dictAddRaw(dict, k, dict_can_resize) } :
            /\ dict' = r.d
            /\ fault' = r.fault
            /\ live' = IF ~r.fault /\ r.ret # NoEntry
                       THEN [live EXCEPT ![k] = NoVal] ELSE live
            /\ UNCHANGED dict_can_resize

Add == AddOf(Keys)

\* dictReplace of a key of K
ReplaceOf(K) ==
    \E k \in K, v \in Vals :
        \E r \in { dictReplace(dict, k, v, dict_can_resize) } :
            /\ dict' = r.d
            /\ fault' = r.fault
            /\ live' = IF ~r.fault THEN [live EXCEPT ![k] = v] ELSE live
            /\ UNCHANGED dict_can_resize

Replace == ReplaceOf(Keys)

\* dictDelete of a key of K
DeleteOf(K) ==
    \E k \in K :
        \E r \in { dictDelete(dict, k) } :
            /\ dict' = r.d
            /\ fault' = r.fault
            /\ live' = IF ~r.fault /\ r.ret = DICT_OK
                       THEN [live EXCEPT ![k] = Absent] ELSE live
            /\ UNCHANGED dict_can_resize

Delete == DeleteOf(Keys)

\* dictFind of a key of K
FindOf(K) ==
    \E k \in K :
        \E r \in { dictFind(dict, k) } :
            /\ dict' = r.d
            /\ fault' = r.fault
            /\ UNCHANGED <<dict_can_resize, live>>

Find == FindOf(Keys)

Expand ==
    \E size \in 0..MaxExpand :
        \E r \in { dictExpand(dict, size) } :
            /\ dict' = r.d
            /\ fault' = r.fault
            /\ UNCHANGED <<dict_can_resize, live>>

Resize ==
    \E r \in { dictResize(dict, dict_can_resize) } :
        /\ dict' = r.d
        /\ fault' = r.fault
        /\ UNCHANGED <<dict_can_resize, live>>

Rehash ==
    \E n \in 1..MaxRehashN :
        \E r \in { dictRehash(dict, n) } :
            /\ dict' = r.d
            /\ fault' = r.fault
            /\ UNCHANGED <<dict_can_resize, live>>

RehashMilliseconds ==
    \E batches \in 1..MaxBatches :
        \E r \in { dictRehashMilliseconds(dict, batches, 0) } :
            /\ dict' = r.d
            /\ fault' = r.fault
            /\ UNCHANGED <<dict_can_resize, live>>

Next ==
    \/ Add /\ UNCHANGED aux
    \/ AddRaw /\ UNCHANGED aux
    \/ Replace /\ UNCHANGED aux
    \/ Delete /\ UNCHANGED aux
    \/ Find /\ UNCHANGED aux
    \/ Expand /\ UNCHANGED aux
    \/ Resize /\ UNCHANGED aux
    \/ Rehash /\ UNCHANGED aux
    \/ RehashMilliseconds /\ UNCHANGED aux

Spec == Init /\ [][Next]_vars

\* ------------------------------------------------- the caller's scan loop
\* `cursor = 0; while True: cursor = dictScan(d, cursor, fn); if not cursor:
\* break`, with other calls on the dict between two dictScan calls.
Range(seq) == { seq[i] : i \in 1..Len(seq) }

\* what a call between two scan calls does to the loop's bookkeeping
Touched(p, d, d2) ==
    IF ~p.active THEN [p EXCEPT !.clean = @ /\ d2 = d]
    ELSE [p EXCEPT !.clean = @ /\ d2 = d,
                   !.grown = @ \/ (/\ p.calls > 0
                                   /\ ~dictIsRehashing(d)
                                   /\ dictIsRehashing(d2)
                                   /\ d2.ht[1].size > d2.ht[0].size
                                   /\ dictSize(d2) > dictSize(d)),
                   !.present = @ \cap ReachableKeys(d2)]

ScanBegin ==
    /\ ~pass.active
    /\ \E v \in Cursors :
           pass' = [active |-> TRUE, done |-> FALSE, start0 |-> v = {},
                    cursor |-> v, calls |-> 0, seen |-> {},
                    buckets |-> <<>>, clean |-> TRUE, grown |-> FALSE,
                    present |-> ReachableKeys(dict), extra |-> FALSE]
    /\ fault' = FALSE
    /\ UNCHANGED <<dict, dict_can_resize, live, it, toggle>>

\* one dictScan call of the loop, fed the cursor the last one returned; fn
\* adds the keys it is handed to `seen`
ScanCall ==
    /\ pass.active
    /\ \E r \in { dictScan(dict, pass.cursor) } :
           /\ fault' = r.fault
           /\ pass' = [pass EXCEPT
                          !.active = ~r.fault /\ r.ret # {},
                          !.done = ~r.fault /\ r.ret = {},
                          !.cursor = r.ret,
                          !.calls = Min(@ + 1, MaxScanCalls),
                          !.seen = @ \cup Range(r.seen),
                          !.buckets = IF Len(@) < MaxScanCalls /\ r.bucket >= 0
                                      THEN Append(@, r.bucket) ELSE @,
                          !.extra = @ \/ ~(Range(r.seen)
                                            \subseteq ReachableKeys(dict))]
    /\ UNCHANGED <<dict, dict_can_resize, live, it, toggle>>

NextScan ==
    \/ Add /\ pass' = Touched(pass, dict, dict') /\ UNCHANGED <<it, toggle>>
    \/ Rehash /\ pass' = Touched(pass, dict, dict') /\ UNCHANGED <<it, toggle>>
    \/ ScanBegin
    \/ ScanCall

SpecScan == Init /\ [][NextScan]_vars

\* ------------------------------------------------ a caller's iterator
\* what a call on the dict does to what the holder of the iterator knows
\* the calls a caller makes on the dict while it holds the iterator
MaxIterOps == 1

IterTouched(i, d, d2) ==
    IF ~i.held THEN i
    ELSE [i EXCEPT !.ops = @ + 1,
                   !.mutated = \/ @
                               \/ ReachableKeys(d2) # ReachableKeys(d)
                               \/ ~dictIsRehashing(d) /\ dictIsRehashing(d2)]

GetIterator ==
    /\ ~it.held
    /\ it' = dictGetIterator(dict)
    /\ fault' = FALSE
    /\ UNCHANGED <<dict, dict_can_resize, live, pass, toggle>>

GetSafeIterator ==
    /\ ~it.held
    /\ it' = dictGetSafeIterator(dict)
    /\ fault' = FALSE
    /\ UNCHANGED <<dict, dict_can_resize, live, pass, toggle>>

\* one dictNext call of the loop `while dictNext(it)`, which calls no
\* more once it got None
IterNext ==
    /\ it.held
    /\ ~it.ended
    /\ it.index <= dict.ht[it.table].size
    /\ \E r \in { dictNext(dict, it) } :
           /\ dict' = r.d
           /\ fault' = r.fault
           /\ it' = [r.it EXCEPT
                        !.returned = IF r.ret # NoKey
                                     THEN Append(@, r.ret) ELSE @,
                        !.ended = ~r.fault /\ r.ret = NoKey]
    /\ UNCHANGED <<dict_can_resize, live, pass, toggle>>

ReleaseIterator ==
    /\ it.held
    /\ \E r \in { dictReleaseIterator(dict, it) } :
           /\ dict' = r.d
           /\ fault' = r.fault
    /\ it' = NoIterator
    /\ UNCHANGED <<dict_can_resize, live, pass, toggle>>

\* dictDelete by a caller that does not delete the entry its iterator is
\* about to return
DeleteOther ==
    /\ \E k \in IterKeys \ { it.nextEntry } :
           \E r \in { dictDelete(dict, k) } :
               /\ dict' = r.d
               /\ fault' = r.fault
               /\ live' = IF ~r.fault /\ r.ret = DICT_OK
                          THEN [live EXCEPT ![k] = Absent] ELSE live
               /\ UNCHANGED dict_can_resize

\* the values c_random() returns
Randoms == 0..MaxRandom

GetRandomKey ==
    \E h \in Randoms, rnd \in Randoms :
        \E r \in dictGetRandomKey(dict, h, rnd) :
            /\ dict' = r.d
            /\ fault' = r.fault
            /\ UNCHANGED <<dict_can_resize, live>>

\* another call on the dict by the holder of the iterator, or by anyone
\* when no iterator is out
Between(i, d, d2) ==
    /\ i.ops < MaxIterOps
    /\ it' = IterTouched(i, d, d2)
    /\ UNCHANGED <<pass, toggle>>

NextIter ==
    \/ AddOf(IterKeys) /\ Between(it, dict, dict')
    \/ Expand /\ Between(it, dict, dict')
    \/ DeleteOther /\ Between(it, dict, dict')
    \/ FindOf(IterKeys) /\ Between(it, dict, dict')
    \/ GetRandomKey /\ Between(it, dict, dict')
    \/ GetIterator
    \/ GetSafeIterator
    \/ IterNext
    \/ ReleaseIterator

SpecIter == Init /\ [][NextIter]_vars

\* ------------------------------- mutation while safe iterators come and go
NextSafe ==
    \/ AddOf(SafeKeys) /\ Between(it, dict, dict')
    \/ DeleteOf(SafeKeys) /\ Between(it, dict, dict')
    \/ ReplaceOf(SafeKeys) /\ Between(it, dict, dict')
    \/ Expand /\ Between(it, dict, dict')
    \/ Resize /\ Between(it, dict, dict')
    \/ Rehash /\ Between(it, dict, dict')
    \/ GetSafeIterator
    \/ IterNext
    \/ ReleaseIterator

SpecSafe == Init /\ [][NextSafe]_vars

\* ------------------------------------- five keys under any hash function
\* hash functions a dictType can carry: the identity, one that sends every
\* key to bucket 0, one whose values share their two low bits, one that
\* reverses the order of the keys
HashFunctions ==
    { dictIdentityHashFunction,
      [key \in Keys |-> 0],
      [key \in Keys |-> 4 * key],
      [key \in Keys |-> 7 - key] }

InitHash ==
    /\ dict \in { rDict(hf) : hf \in HashFunctions }
    /\ dict_can_resize = TRUE
    /\ live = [k \in Keys |-> Absent]
    /\ fault = FALSE
    /\ pass = NoPass
    /\ it = NoIterator
    /\ toggle = NoToggle

\* dictAdd of a key that is not in the dict
AddDistinct ==
    \E k \in Keys \ ReachableKeys(dict), v \in Vals :
        \E r \in { dictAdd(dict, k, v, dict_can_resize) } :
            /\ dict' = r.d
            /\ fault' = r.fault
            /\ live' = IF ~r.fault /\ r.ret = DICT_OK
                       THEN [live EXCEPT ![k] = v] ELSE live
            /\ UNCHANGED dict_can_resize

\* dictRehash(d, 1)
RehashOne ==
    \E r \in { dictRehash(dict, 1) } :
        /\ dict' = r.d
        /\ fault' = r.fault
        /\ UNCHANGED <<dict_can_resize, live>>

\* what c_random() returns where dictGetRandomKeys picks a first bucket
Starts == 0..MaxStart

\* dictGetRandomKeys into a new list
GetRandomKeys ==
    \E count \in 0..MaxCount, r0 \in Starts, r1 \in Starts :
        \E r \in { dictGetRandomKeys(dict, count, r0, r1) } :
            /\ dict' = r.d
            /\ fault' = r.fault
            /\ UNCHANGED <<dict_can_resize, live>>

NextHash ==
    \/ AddDistinct /\ UNCHANGED aux
    \/ RehashOne /\ UNCHANGED aux
    \/ GetRandomKeys /\ UNCHANGED aux

SpecHash == InitHash /\ [][NextHash]_vars

\* ------------------------------------------- a dict filled key after key
\* keys 1, 2, 3, ... are added in this order, each with itself as value, so
\* that tables of more buckets than one rehash batch come about
InitFill ==
    /\ dict = rDict([key \in FillKeys |-> dictIdentityHashFunction_(key)])
    /\ dict_can_resize = TRUE
    /\ live = [k \in Keys |-> Absent]
    /\ fault = FALSE
    /\ pass = NoPass
    /\ it = NoIterator
    /\ toggle = NoToggle

AddFreshTo(max) ==
    /\ dictSize(dict) < max
    /\ \E k \in { dictSize(dict) + 1 } :
           \E r \in { dictAdd(dict, k, k, dict_can_resize) } :
               /\ dict' = r.d
               /\ fault' = r.fault
               /\ UNCHANGED <<dict_can_resize, live>>

AddFresh == AddFreshTo(MaxFill)

NextFill ==
    \/ AddFresh /\ UNCHANGED aux
    \/ RehashMilliseconds /\ UNCHANGED aux

SpecFill == InitFill /\ [][NextFill]_vars

\* ------------------------------------------ the switch of dict_can_resize
EnableResize ==
    /\ dict_can_resize' = TRUE
    /\ toggle' = NoToggle
    /\ UNCHANGED <<dict, live, fault, pass, it>>

\* toggle keeps where the rehash was when resizing was switched off
DisableResize ==
    /\ dict_can_resize' = FALSE
    /\ toggle' = [called |-> TRUE, rehashidx |-> dict.rehashidx]
    /\ UNCHANGED <<dict, live, fault, pass, it>>

NextToggle ==
    \/ Add /\ UNCHANGED aux
    \/ Find /\ UNCHANGED aux
    \/ Delete /\ UNCHANGED aux
    \/ Expand /\ UNCHANGED aux
    \/ Rehash /\ UNCHANGED aux
    \/ EnableResize
    \/ DisableResize

SpecToggle == Init /\ [][NextToggle]_vars

\* keys 1, 2, 3, ... added while resizing is switched on and off
NextForce ==
    \/ AddFreshTo(MaxForce) /\ UNCHANGED aux
    \/ EnableResize
    \/ DisableResize

SpecForce == InitFill /\ [][NextForce]_vars

\* -------------------------------------------- a dict that is cleared
Empty ==
    \E r \in { dictEmpty(dict) } :
        /\ dict' = r.d
        /\ fault' = r.fault
        /\ live' = IF r.fault THEN live ELSE [k \in Keys |-> Absent]
        /\ UNCHANGED dict_can_resize

\* dictRelease, and dictCreate for the dict that takes its place
Release ==
    \E r \in { dictRelease(dict) } :
        /\ dict' = IF r.fault THEN r.d ELSE rDict(dict.type.hashFunction)
        /\ fault' = r.fault
        /\ live' = IF r.fault THEN live ELSE [k \in Keys |-> Absent]
        /\ UNCHANGED dict_can_resize

\* the calls stop at the first exception
NextClear ==
    \/ ~fault /\ Add /\ UNCHANGED aux
    \/ ~fault /\ Delete /\ UNCHANGED aux
    \/ ~fault /\ Expand /\ UNCHANGED aux
    \/ ~fault /\ Rehash /\ UNCHANGED aux
    \/ ~fault /\ Empty /\ UNCHANGED aux
    \/ ~fault /\ Release /\ UNCHANGED aux

SpecClear == Init /\ [][NextClear]_vars

\* C1: size() (ht0.used + ht1.used) equals the number of distinct keys
\* reachable through the chains of both generations, after any sequence of
\* add, addRaw, replace, delete, expand, resize, rehash and
\* rehashMilliseconds calls.
SizeCountsKeys == dictSize(dict) = Cardinality(ReachableKeys(dict))

\* a rehash under way, part of ht[0] migrated, entries counted in both
\* generations
SizeCountsKeysWitness ==
    /\ dictIsRehashing(dict)
    /\ dict.ht[0].used > 0
    /\ dict.ht[1].used > 1
    /\ dict.rehashidx > 0
    /\ dictSize(dict) = 3

\* the value stored for a key in the chains of d, Absent when no chain has it
RECURSIVE ChainValue(_, _)
ChainValue(chain, key) ==
    IF chain = <<>> THEN Absent
    ELSE IF Head(chain).key = key THEN Head(chain).v
    ELSE ChainValue(Tail(chain), key)

RECURSIVE TableValue(_, _, _)
TableValue(ht, key, i) ==
    IF i > Len(ht.table) THEN Absent
    ELSE IF ChainValue(ht.table[i], key) # Absent
    THEN ChainValue(ht.table[i], key)
    ELSE TableValue(ht, key, i + 1)

Contents(d) ==
    [k \in Keys |-> IF TableValue(d.ht[0], k, 1) # Absent
                    THEN TableValue(d.ht[0], k, 1)
                    ELSE TableValue(d.ht[1], k, 1)]

\* the key sits in ht[1] although its ht[0] bucket is not migrated yet: it
\* was inserted while the rehash was under way
AddedMidRehash(d, k) ==
    /\ dictIsRehashing(d)
    /\ k \in TableKeys(d, 1)
    /\ BitAnd(dictHashKey(d, k), d.ht[0].sizemask) >= d.rehashidx

\* C2: in any reachable state, rehashing or not, if add(k, v) returns Ok
\* then the find(k) that follows returns an entry whose key is k and whose
\* value is v.
AddThenFind ==
    \A k \in Keys, v \in Vals :
        \A a \in { dictAdd(dict, k, v, dict_can_resize) } :
            (~a.fault /\ a.ret = DICT_OK) =>
                \A f \in { dictFind(a.d, k) } :
                    /\ ~f.fault
                    /\ f.ret # NoEntry
                    /\ dictGetKey(f.d, f.ret) = k
                    /\ dictGetVal(f.d, f.ret) = v

\* an add went into ht[1] during a rehash, its value is set and find has it
AddThenFindWitness ==
    \E k \in Keys :
        /\ AddedMidRehash(dict, k)
        /\ dict.ht[0].used > 0
        /\ live[k] \in Vals
        /\ \E f \in { dictFind(dict, k) } :
               f.ret # NoEntry /\ dictGetVal(f.d, f.ret) = live[k]

\* C3: in any reachable state, whichever generation holds the key, if
\* delete(k) returns Ok then the find(k) that follows reports no entry, and
\* a key that is not live (deleted and not added again) is not found.
DeleteThenFind ==
    /\ \A k \in Keys :
           \A r \in { dictDelete(dict, k) } :
               (~r.fault /\ r.ret = DICT_OK) =>
                   \A f \in { dictFind(r.d, k) } :
                       ~f.fault /\ f.ret = NoEntry
    /\ \A k \in Keys :
           live[k] = Absent =>
               \A f \in { dictFind(dict, k) } : ~f.fault /\ f.ret = NoEntry

\* a rehash into 16 buckets starts only with every key of the model in the
\* dict, so a key that is not live here was deleted, and this during the
\* rehash or before it; entries remain in both generations
DeleteThenFindWitness ==
    /\ dictIsRehashing(dict)
    /\ dict.ht[1].size = 4 * DICT_HT_INITIAL_SIZE
    /\ dict.ht[0].used > 0
    /\ dict.ht[1].used > 0
    /\ \E k \in Keys : live[k] = Absent /\ dictFind(dict, k).ret = NoEntry

\* C4: add(k, v) on a key that is present returns KeyExists (addRaw returns
\* None) and mutates nothing: the keys, the value stored for every key and
\* size() are as before the call.
AddExistingKey ==
    \A k \in ReachableKeys(dict), v \in Vals :
        /\ \A a \in { dictAdd(dict, k, v, dict_can_resize) } :
               /\ ~a.fault
               /\ a.ret = DICT_ERR
               /\ Contents(a.d) = Contents(dict)
               /\ ReachableKeys(a.d) = ReachableKeys(dict)
               /\ dictSize(a.d) = dictSize(dict)
        /\ \A a \in { dictAddRaw(dict, k, dict_can_resize) } :
               /\ ~a.fault
               /\ a.ret = NoEntry
               /\ Contents(a.d) = Contents(dict)
               /\ ReachableKeys(a.d) = ReachableKeys(dict)
               /\ dictSize(a.d) = dictSize(dict)

\* a key whose value was never set sits in ht[1] mid-rehash, and the add
\* that is refused for it still takes its rehash step
AddExistingKeyWitness ==
    \E k \in Keys :
        /\ AddedMidRehash(dict, k)
        /\ live[k] = NoVal
        /\ \E a \in { dictAdd(dict, k, 1, dict_can_resize) } :
               a.ret = DICT_ERR /\ a.d # dict

\* C5: at every intermediate state of an incremental rehash, find(k)
\* succeeds for every key added and not deleted, and the entry holds the
\* value stored last for k.
FindDuringRehash ==
    dictIsRehashing(dict) =>
        \A k \in Keys :
            live[k] # Absent =>
                \A f \in { dictFind(dict, k) } :
                    /\ ~f.fault
                    /\ f.ret # NoEntry
                    /\ dictGetKey(f.d, f.ret) = k
                    /\ dictGetVal(f.d, f.ret) = live[k]

\* part of ht[0] is migrated, both generations hold entries, one key was
\* inserted during the rehash, and values set and unset are both there
FindDuringRehashWitness ==
    /\ dictIsRehashing(dict)
    /\ dict.rehashidx > 1
    /\ dict.ht[0].used > 0
    /\ dict.ht[1].used > 1
    /\ \E k \in Keys : AddedMidRehash(dict, k)
    /\ \E k \in Keys : live[k] = NoVal
    /\ \E k \in Keys : live[k] \in Vals

\* the smallest power of two that is at least n
SmallestPowerOfTwo(n) ==
    CHOOSE p \in { 2 ^ i : i \in 0..7 } :
        p >= n /\ \A q \in { 2 ^ i : i \in 0..7 } : q >= n => p <= q

\* C10: with resizing enabled, an add of a new key starts no rehash while
\* ht0.used < ht0.size, and an add made when ht0.used >= ht0.size starts a
\* rehash into the smallest power of two >= 2 * ht0.used; the first add
\* allocates ht0 at capacity 4, so the first 4 adds leave capacity 4 and no
\* rehash and the 5th starts a rehash into capacity 8.
ExpandOnFullTable ==
    (dict_can_resize /\ ~dictIsRehashing(dict)) =>
        \A k \in Keys \ ReachableKeys(dict), v \in Vals :
            \A a \in { dictAdd(dict, k, v, dict_can_resize) } :
                /\ ~a.fault /\ a.ret = DICT_OK
                /\ dict.ht[0].size = 0 =>
                       /\ ~dictIsRehashing(a.d)
                       /\ a.d.ht[0].size = DICT_HT_INITIAL_SIZE
                /\ (dict.ht[0].size > 0 /\ dict.ht[0].used < dict.ht[0].size) =>
                       /\ ~dictIsRehashing(a.d)
                       /\ a.d.ht[0].size = dict.ht[0].size
                /\ (dict.ht[0].size > 0 /\ dict.ht[0].used >= dict.ht[0].size) =>
                       /\ dictIsRehashing(a.d)
                       /\ a.d.rehashidx = 0
                       /\ a.d.ht[0].size = dict.ht[0].size
                       /\ a.d.ht[1].size
                              = SmallestPowerOfTwo(2 * dict.ht[0].used)

\* the state the 5th add leaves: ht0 of capacity 4 with the first 4 keys,
\* a rehash just started into capacity 8, the 5th key in ht1
ExpandOnFullTableWitness ==
    /\ dict.ht[0].size = 4
    /\ dict.ht[0].used = 4
    /\ dict.rehashidx = 0
    /\ dict.ht[1].size = 8
    /\ dict.ht[1].used = 1
    /\ \A k \in 1..5 : live[k] # Absent

\* C6: with N keys in the dict and no mutation during the scan, the loop
\* that starts at cursor 0 and feeds every returned cursor to the next call
\* is handed no key that is not in the dict, has been handed every key of
\* the dict when a returned cursor is 0, and does not come back to a bucket
\* it has read with keys still to hand out (dictScan is a function of the
\* dict and the cursor, so a loop that does never gets to them).
ScanVisitsEveryKey ==
    (pass.start0 /\ pass.clean /\ pass.calls > 0
        /\ ~dictIsRehashing(dict) /\ dictSize(dict) > 0) =>
        /\ ~pass.extra
        /\ pass.done => ReachableKeys(dict) \subseteq pass.seen
        /\ (\E i, j \in 1..Len(pass.buckets) :
               i < j /\ pass.buckets[i] = pass.buckets[j]) =>
               ReachableKeys(dict) \subseteq pass.seen

\* C7: on a non-empty dict that is not rehashing and not mutated, the loop
\* started at cursor 0 gets cursor 0 back from call number ht0.size and not
\* before, and by then every bucket index was read exactly once.
ScanPassTakesSizeCalls ==
    (pass.start0 /\ pass.clean /\ pass.calls > 0
        /\ ~dictIsRehashing(dict) /\ dictSize(dict) > 0
        /\ dict.ht[0].size <= MaxScanCalls) =>
        /\ pass.calls < dict.ht[0].size => pass.active
        /\ pass.calls = dict.ht[0].size =>
               /\ pass.done
               /\ \A b \in 0..(dict.ht[0].size - 1) :
                      Cardinality({ i \in 1..Len(pass.buckets) :
                                      pass.buckets[i] = b }) = 1

\* C8: when an expansion starts between the calls of a loop started at
\* cursor 0, the loop still ends with a returned cursor of 0, and every key
\* that was in the dict from its first call to its last was handed to fn.
ScanSurvivesExpansion ==
    (pass.start0 /\ pass.grown /\ ~pass.active) =>
        (pass.done /\ pass.present \subseteq pass.seen)

\* C9: scan never faults, for any cursor value and in any reachable state
\* of the dict: it returns a cursor and reads no bucket outside a table.
ScanNeverFaults ==
    \A v \in Cursors :
        \A r \in { dictScan(dict, v) } :
            /\ ~r.fault
            /\ r.bucket >= 0 => InTable(dict.ht[0], r.bucket)

\* the dict i calls of rehash(1) leave, and whether one of them raised
RECURSIVE RehashCalls(_, _)
RehashCalls(d, i) ==
    IF i = 0 THEN Ret(d, 0)
    ELSE LET r == dictRehash(d, 1)
         IN  IF r.fault THEN r ELSE RehashCalls(r.d, i - 1)

\* the dict the 5th add leaves: 4 keys in ht0 of capacity 4, an expansion
\* to capacity 8 just started, the 5th key in ht1
FiveKeysIn(d) ==
    /\ d.ht[0].size = DICT_HT_INITIAL_SIZE
    /\ d.ht[0].used = 4
    /\ d.ht[1].size = 2 * DICT_HT_INITIAL_SIZE
    /\ d.ht[1].used = 1
    /\ d.rehashidx = 0

\* C11: for any 5 distinct keys and any hash function, from the dict the
\* 5th add leaves (capacity 4, expansion to 8 started), rehash(1) called
\* again and again with nothing else in between leaves size() at 5 after
\* every call, and after at most 8 calls the dict is not rehashing and all
\* 5 keys are in ht0.
RehashOneByOne ==
    FiveKeysIn(dict) =>
        /\ \A i \in 1..8 :
               \A r \in { RehashCalls(dict, i) } :
                   /\ ~r.fault
                   /\ dictSize(r.d) = 5
                   /\ ReachableKeys(r.d) = ReachableKeys(dict)
        /\ \A r \in { RehashCalls(dict, 8) } :
               /\ ~dictIsRehashing(r.d)
               /\ TableKeys(r.d, 0) = ReachableKeys(dict)
               /\ Cardinality(TableKeys(r.d, 0)) = 5

\* the rehash(1) calls brought 5 keys that all hash to bucket 0 of the
\* capacity 4 table into ht0 of capacity 8, and the rehash is over
RehashOneByOneWitness ==
    /\ dict.type.hashFunction = [key \in Keys |-> 4 * key]
    /\ ~dictIsRehashing(dict)
    /\ dict.ht[0].size = 2 * DICT_HT_INITIAL_SIZE
    /\ dict.ht[0].used = 5
    /\ dict.ht[1].size = 0

\* the dict j whole dictRehash(d, 100) batches leave
RECURSIVE WholeBatches(_, _)
WholeBatches(d, j) ==
    IF j = 0 THEN d ELSE WholeBatches(dictRehash(d, RehashBatch).d, j - 1)

\* more batches than any table of the model takes
NoDeadline == 2 * MaxFill

\* C12: rehashMilliseconds whose deadline does not expire leaves a
\* rehashing dict not rehashing (rehashidx -1, ht1 reset, every entry in
\* ht0) with every key findable with the value it had; and whenever it
\* returns, deadline expired or not, it has run whole rehash(100) batches
\* only, and returns 100 times the number of batches that returned 1.
RehashToCompletion ==
    dictIsRehashing(dict) =>
        /\ \A r \in { dictRehashMilliseconds(dict, NoDeadline, 0) } :
               /\ ~r.fault
               /\ r.d.rehashidx = -1
               /\ r.d.ht[1] = dictht
               /\ TableKeys(r.d, 0) = ReachableKeys(dict)
               /\ dictSize(r.d) = dictSize(dict)
               /\ \A k \in ReachableKeys(dict) :
                      \A f \in { dictFind(r.d, k) } :
                          /\ f.ret # NoEntry
                          /\ dictGetVal(f.d, f.ret) = k
        /\ \A batches \in 1..MaxBatches :
               \A r \in { dictRehashMilliseconds(dict, batches, 0) } :
                   \E j \in 1..batches :
                       /\ r.d = WholeBatches(dict, j)
                       /\ r.ret \in { RehashBatch * j, RehashBatch * (j - 1) }

\* the 129th key started the expansion of a table with 128 non-empty
\* buckets, more than one batch moves, and the rehash is over
RehashToCompletionWitness ==
    /\ ~dictIsRehashing(dict)
    /\ dict.ht[0].size = 256
    /\ dict.ht[0].used = MaxFill
    /\ dict.ht[1] = dictht

\* C13: an unsafe iterator was acquired and a structural mutation (an add
\* of a new key, a delete of a present key, an expansion) was made on the
\* dict since: releasing the iterator finds the fingerprint changed and
\* its assertion fails.
ReleaseDetectsMutation ==
    (it.held /\ it.safe = 0 /\ it.mutated) =>
        dictReleaseIterator(dict, it).fault

\* the call that took d to d2 left rehashidx alone and moved no entry of
\* ht0 to ht1
NothingMoved(d, d2) ==
    /\ d2.rehashidx = d.rehashidx
    /\ TableKeys(d2, 1) \cap TableKeys(d, 0) = {}

\* C14: while a safe iterator is held (from getSafeIterator to its
\* release) and the dict is rehashing, an add, find, delete, replace or
\* getRandomKey call leaves rehashidx as it is and moves no entry of ht0
\* to ht1.
SafeIteratorSuspendsRehash ==
    (it.held /\ it.safe = 1 /\ dictIsRehashing(dict)) =>
        /\ \A k \in IterKeys, v \in Vals :
               /\ NothingMoved(dict, dictAdd(dict, k, v, dict_can_resize).d)
               /\ NothingMoved(dict,
                               dictReplace(dict, k, v, dict_can_resize).d)
        /\ \A k \in IterKeys :
               /\ NothingMoved(dict, dictFind(dict, k).d)
               /\ NothingMoved(dict, dictDelete(dict, k).d)
        /\ \A h \in Randoms :
               \A x \in dictGetRandomKey(dict, h, 0) :
                   NothingMoved(dict, x.d)

\* the keys of the buckets of a table from bucket i on, bucket after
\* bucket, each chain from its head
RECURSIVE KeysFrom(_, _)
KeysFrom(ht, i) ==
    IF i >= Len(ht.table) THEN <<>>
    ELSE ChainKeySeq(ht.table[i + 1]) \o KeysFrom(ht, i + 1)

\* the order of traversal: ht0 from bucket 0, then ht1 when mid-rehash
IterOrder(d) ==
    KeysFrom(d.ht[0], 0)
        \o (IF dictIsRehashing(d) THEN KeysFrom(d.ht[1], 0) ELSE <<>>)

\* C15: with no call on the dict between them, the next() calls on an
\* iterator, safe or unsafe, return the entries of the dict in the order
\* ht0 bucket 0..size-1 then (mid-rehash) ht1 from bucket 0, each chain
\* from its head, every entry once, then None; no call faults, on an empty
\* dict, a stable one or a rehashing one.
IterReturnsEveryEntry ==
    (it.held /\ it.ops = 0) =>
        /\ ~fault
        /\ Len(it.returned) <= Len(IterOrder(dict))
        /\ it.returned = SubSeq(IterOrder(dict), 1, Len(it.returned))
        /\ it.ended => it.returned = IterOrder(dict)

\* C16: expand(n) returns an error when the dict is mid-rehash or when
\* n < ht0.used, and then the whole dict (both generations, rehashidx,
\* contents) is as before the call.
ExpandRejected ==
    \A n \in 0..MaxExpand :
        \A r \in { dictExpand(dict, n) } :
            (dictIsRehashing(dict) \/ n < dict.ht[0].used) =>
                /\ ~r.fault
                /\ r.ret = DICT_ERR
                /\ r.d = dict

\* a stable dict with more keys than the capacity asked for
ExpandRejectedWitness ==
    /\ ~dictIsRehashing(dict)
    /\ dict.ht[0].used = MaxKey
    /\ dictExpand(dict, DICT_HT_INITIAL_SIZE).ret = DICT_ERR

\* the empty table of a capacity
FreshTable(cap) ==
    [table |-> [i \in 1..cap |-> <<>>], size |-> cap,
     sizemask |-> cap - 1, used |-> 0]

\* the capacity for a request: the smallest power of two >= n, 4 at least
Capacity(n) ==
    IF SmallestPowerOfTwo(n) < DICT_HT_INITIAL_SIZE
    THEN DICT_HT_INITIAL_SIZE ELSE SmallestPowerOfTwo(n)

\* C17: an expand(n) that is accepted allocates an empty table of capacity
\* nextPower(n); it becomes ht0 when ht0 was unallocated, and the dict is
\* not rehashing; else it becomes ht1, rehashidx becomes 0 and ht0 with
\* its entries is untouched.
ExpandAccepted ==
    \A n \in 0..MaxExpand :
        \A r \in { dictExpand(dict, n) } :
            (~r.fault /\ r.ret = DICT_OK) =>
                IF dict.ht[0].size = 0
                THEN /\ r.d.ht[0] = FreshTable(Capacity(n))
                     /\ r.d.ht[1] = dict.ht[1]
                     /\ r.d.rehashidx = -1
                ELSE /\ r.d.ht[1] = FreshTable(Capacity(n))
                     /\ r.d.ht[0] = dict.ht[0]
                     /\ r.d.rehashidx = 0

\* an expand call started a rehash 4 -> 8 of a table that is not full
ExpandAcceptedWitness ==
    /\ dict.rehashidx = 0
    /\ dict.ht[0].size = DICT_HT_INITIAL_SIZE
    /\ dict.ht[0].used \in 1..3
    /\ dict.ht[1] = FreshTable(2 * DICT_HT_INITIAL_SIZE)

\* C18: resize() on a dict that is not rehashing, with resizing enabled,
\* succeeds whatever ht0.used is, and the new generation has the smallest
\* power of two >= max(ht0.used, 4) as capacity; with resizing disabled or
\* mid-rehash it returns an error and changes nothing.
ResizeToFit ==
    \A r \in { dictResize(dict, dict_can_resize) } :
        IF dict_can_resize /\ ~dictIsRehashing(dict)
        THEN /\ ~r.fault
             /\ r.ret = DICT_OK
             /\ LET cap == Capacity(IF dict.ht[0].used > DICT_HT_INITIAL_SIZE
                                    THEN dict.ht[0].used
                                    ELSE DICT_HT_INITIAL_SIZE)
                IN  IF dict.ht[0].size = 0
                    THEN r.d.ht[0].size = cap
                    ELSE r.d.ht[1].size = cap
        ELSE r.ret = DICT_ERR /\ r.d = dict

\* a call went on with the rehash that was running: it finished it, or
\* moved rehashidx forward in the same pair of tables
WentOn(d, r) ==
    /\ ~r.fault
    /\ \/ ~dictIsRehashing(r.d)
       \/ /\ r.d.rehashidx > d.rehashidx
          /\ r.d.ht[1].size = d.ht[1].size
          /\ r.d.ht[0].size = d.ht[0].size

\* the dict after i calls of dictFind for a key
RECURSIVE FindCalls(_, _, _)
FindCalls(d, key, i) ==
    IF i = 0 THEN d
    ELSE LET r == dictFind(d, key)
         IN  IF r.fault THEN d ELSE FindCalls(r.d, key, i - 1)

\* C19: switching resizing off does not pause a rehash that is running:
\* with resizing off and a rehash in progress, every add, find and delete
\* still takes a rehash step, rehash(n) still migrates, and a run of
\* calls (one for each bucket from rehashidx on and one more) ends with
\* the dict not rehashing.
DisabledRehashGoesOn ==
    (~dict_can_resize /\ dictIsRehashing(dict)) =>
        /\ \A k \in Keys :
               /\ \A v \in Vals : WentOn(dict, dictAdd(dict, k, v, FALSE))
               /\ WentOn(dict, dictFind(dict, k))
               /\ WentOn(dict, dictDelete(dict, k))
               /\ ~dictIsRehashing(
                      FindCalls(dict, k,
                                dict.ht[0].size - dict.rehashidx + 1))
        /\ \A n \in 1..MaxRehashN :
               \A r \in { dictRehash(dict, n) } :
                   /\ WentOn(dict, r)
                   /\ \/ ~dictIsRehashing(r.d)
                      \/ r.d.ht[0].used < dict.ht[0].used

\* resizing was switched off in the middle of the rehash 4 -> 8, is still
\* off, and the rehash has finished
DisabledRehashGoesOnWitness ==
    /\ ~dict_can_resize
    /\ toggle.called
    /\ toggle.rehashidx \in 1..3
    /\ ~dictIsRehashing(dict)
    /\ dict.ht[0].size = 2 * DICT_HT_INITIAL_SIZE
    /\ dict.ht[0].used = MaxKey

\* C20: with resizing off, an add to an allocated dict that is not
\* rehashing starts no expansion while used div size <= 5, and starts one,
\* to the smallest power of two >= 2 * used, once used >= size and
\* used div size > 5.
ForcedExpansion ==
    (~dict_can_resize /\ ~dictIsRehashing(dict) /\ dict.ht[0].size > 0
        /\ dictSize(dict) < MaxForce) =>
        \A k \in { dictSize(dict) + 1 } :
            \A r \in { dictAdd(dict, k, k, dict_can_resize) } :
                /\ ~r.fault
                /\ r.ret = DICT_OK
                /\ (dict.ht[0].used \div dict.ht[0].size
                        <= dict_force_resize_ratio) =>
                       /\ ~dictIsRehashing(r.d)
                       /\ r.d.ht[0].size = dict.ht[0].size
                       /\ r.d.ht[1] = dict.ht[1]
                /\ (/\ dict.ht[0].used >= dict.ht[0].size
                    /\ dict.ht[0].used \div dict.ht[0].size
                           > dict_force_resize_ratio) =>
                       /\ dictIsRehashing(r.d)
                       /\ r.d.ht[1].size
                              = SmallestPowerOfTwo(2 * dict.ht[0].used)
                       /\ r.d.ht[0].size = dict.ht[0].size

\* the add of the 25th key to a table of 4 buckets, resizing off, has
\* started the expansion to 64 buckets
ForcedExpansionWitness ==
    /\ ~dict_can_resize
    /\ dict.rehashidx = 0
    /\ dict.ht[0].size = DICT_HT_INITIAL_SIZE
    /\ dict.ht[0].used = MaxForce - 1
    /\ dict.ht[1].size = 64
    /\ dict.ht[1].used = 1

\* C21: replace(k, v) returns 1 and size() grows by exactly 1 when k was
\* absent, returns 0 and size() stays when k was present; either way the
\* find(k) that follows yields v and every other key keeps its value, in
\* any state, mid-rehash included.
ReplaceContract ==
    \A k \in Keys, v \in Vals :
        \A r \in { dictReplace(dict, k, v, dict_can_resize) } :
            /\ ~r.fault
            /\ IF k \in ReachableKeys(dict)
               THEN r.ret = 0 /\ dictSize(r.d) = dictSize(dict)
               ELSE r.ret = 1 /\ dictSize(r.d) = dictSize(dict) + 1
            /\ \A f \in { dictFind(r.d, k) } :
                   /\ ~f.fault
                   /\ f.ret # NoEntry
                   /\ dictGetKey(f.d, f.ret) = k
                   /\ dictGetVal(f.d, f.ret) = v
            /\ Contents(r.d) = [Contents(dict) EXCEPT ![k] = v]
            /\ ReachableKeys(r.d) = ReachableKeys(dict) \cup {k}

\* mid-rehash, with entries in both generations: a key that has no value
\* yet is overwritten, and a key that is absent is inserted
ReplaceContractWitness ==
    /\ dictIsRehashing(dict)
    /\ dict.ht[0].used > 1
    /\ dict.ht[1].used > 0
    /\ \E k \in ReachableKeys(dict) :
           /\ Contents(dict)[k] = NoVal
           /\ \E r \in { dictReplace(dict, k, MaxVal, dict_can_resize) } :
                  r.ret = 0 /\ Contents(r.d)[k] = MaxVal
    /\ \E k \in Keys \ ReachableKeys(dict) :
           dictReplace(dict, k, MaxVal, dict_can_resize).ret = 1

\* C22: delete(k) of an absent key returns an error and leaves the keys,
\* the values and size() as they were; delete(k) of a present key returns
\* Ok, takes exactly 1 off size(), removes k only and leaves every other
\* key with its value, whichever generation holds k and wherever in its
\* chain it is.
DeleteContract ==
    \A k \in Keys :
        \A r \in { dictDelete(dict, k) } :
            /\ ~r.fault
            /\ IF k \in ReachableKeys(dict)
               THEN /\ r.ret = DICT_OK
                    /\ dictSize(r.d) = dictSize(dict) - 1
                    /\ ReachableKeys(r.d) = ReachableKeys(dict) \ {k}
                    /\ Contents(r.d) = [Contents(dict) EXCEPT ![k] = Absent]
               ELSE /\ r.ret = DICT_ERR
                    /\ dictSize(r.d) = dictSize(dict)
                    /\ ReachableKeys(r.d) = ReachableKeys(dict)
                    /\ Contents(r.d) = Contents(dict)

\* mid-rehash a key sits inside a chain of ht[1], behind the head, and
\* another in ht[0]; both deletes succeed, and the delete of an absent key
\* is refused
DeleteContractWitness ==
    /\ dictIsRehashing(dict)
    /\ \E k \in TableKeys(dict, 1) :
           /\ \E i \in 1..Len(dict.ht[1].table) :
                  ChainPos(dict, dict.ht[1].table[i], k, 1) > 1
           /\ dictDelete(dict, k).ret = DICT_OK
    /\ \E k \in TableKeys(dict, 0) :
           \E r \in { dictDelete(dict, k) } :
               r.ret = DICT_OK /\ dictIsRehashing(r.d)
    /\ \E k \in Keys \ ReachableKeys(dict) :
           dictDelete(dict, k).ret = DICT_ERR

\* C23: getRandomKey returns None exactly when the dict is empty; on a dict
\* that is not empty, whatever its random draws and in any state (mid-
\* rehash with partly empty generations included), it returns without
\* fault an entry that is stored in the dict.
RandomKeyIsStored ==
    \A h \in Randoms, rnd \in Randoms :
        \A r \in dictGetRandomKey(dict, h, rnd) :
            /\ ~r.fault
            /\ (r.ret = NoEntry) <=> (dictSize(dict) = 0)
            /\ r.ret # NoEntry =>
                   dictGetKey(r.d, r.ret) \in ReachableKeys(dict)

\* C24: getRandomKeys(count), count >= 0, returns exactly min(count,
\* size()) entries, each of them stored in the dict and no two the same,
\* for every random start and in any state, mid-rehash included; its
\* assertion never fails.
RandomKeysCount ==
    \A count \in 0..MaxCount, r0 \in Starts, r1 \in Starts :
        \A r \in { dictGetRandomKeys(dict, count, r0, r1) } :
            /\ ~r.fault
            /\ r.ret = Min(count, dictSize(dict))
            /\ Len(r.des) = r.ret
            /\ \A p \in 1..Len(r.des) :
                   /\ InTable(dict.ht[r.des[p][1]], r.des[p][2])
                   /\ r.des[p][3] \in
                          1..Len(dict.ht[r.des[p][1]].table[r.des[p][2] + 1])
            /\ \A p, q \in 1..Len(r.des) :
                   p # q => /\ r.des[p] # r.des[q]
                            /\ dictGetKey(dict, r.des[p])
                                   # dictGetKey(dict, r.des[q])

\* mid-rehash with entries in both generations: a call for fewer entries
\* than there are stops inside a chain, and a call for more than there
\* are returns all of them, those of ht[0] and those of ht[1]
RandomKeysCountWitness ==
    /\ dictIsRehashing(dict)
    /\ dict.ht[0].used > 0
    /\ dict.ht[1].used > 1
    /\ \E r0 \in Starts, r1 \in Starts :
           \E r \in { dictGetRandomKeys(dict, MaxCount, r0, r1) } :
               /\ r.ret = dictSize(dict)
               /\ \E p, q \in 1..Len(r.des) :
                      r.des[p][1] = 0 /\ r.des[q][1] = 1
    /\ \E r0 \in Starts, r1 \in Starts :
           \E r \in { dictGetRandomKeys(dict, 2, r0, r1) } :
               /\ r.ret = 2
               /\ Len(dict.ht[r.des[2][1]].table[r.des[2][2] + 1])
                      > r.des[2][3]

\* C25: empty(callback) and release, called in any reachable state (any
\* distribution of the entries over the buckets, bucket 0 included,
\* stable or mid-rehash), complete without fault and release every entry
\* of both generations: size() = 0 and both generations are unallocated
\* afterwards, and after empty rehashidx = -1 and the dict takes new adds.
ClearReleasesAll ==
    ~fault =>
        /\ \A r \in { dictEmpty(dict) } :
               /\ ~r.fault
               /\ dictSize(r.d) = 0
               /\ r.d.ht[0] = dictht
               /\ r.d.ht[1] = dictht
               /\ r.d.rehashidx = -1
               /\ \A k \in Keys, v \in Vals :
                      \A a \in { dictAdd(r.d, k, v, dict_can_resize) } :
                          ~a.fault /\ a.ret = DICT_OK
        /\ \A r \in { dictRelease(dict) } :
               /\ ~r.fault
               /\ dictSize(r.d) = 0
               /\ r.d.ht[0] = dictht
               /\ r.d.ht[1] = dictht

\* how many entries of a chain have the key
RECURSIVE ChainCount(_, _)
ChainCount(chain, key) ==
    IF chain = <<>> THEN 0
    ELSE (IF Head(chain).key = key THEN 1 ELSE 0)
             + ChainCount(Tail(chain), key)

\* how many entries of the buckets i.. of a table have the key
RECURSIVE TableCount(_, _, _)
TableCount(ht, key, i) ==
    IF i > Len(ht.table) THEN 0
    ELSE ChainCount(ht.table[i], key) + TableCount(ht, key, i + 1)

\* C26: in every reachable state no key occurs more than once across all
\* chains of ht0 and ht1 together: no key is in both generations, and every
\* live entry hangs off exactly one bucket of exactly one generation.
NoKeyTwice ==
    \A k \in Keys :
        /\ TableCount(dict.ht[0], k, 1) + TableCount(dict.ht[1], k, 1) <= 1
        /\ live[k] # Absent =>
               TableCount(dict.ht[0], k, 1) + TableCount(dict.ht[1], k, 1) = 1
        /\ live[k] = Absent =>
               TableCount(dict.ht[0], k, 1) + TableCount(dict.ht[1], k, 1) = 0

\* mid-rehash with every key of the model live, some still in ht[0] and
\* some in ht[1], and an add of each of them refused
NoKeyTwiceWitness ==
    /\ dictIsRehashing(dict)
    /\ dict.ht[0].used > 1
    /\ dict.ht[1].used > 1
    /\ \A k \in Keys :
           /\ live[k] # Absent
           /\ dictAdd(dict, k, MaxVal, dict_can_resize).ret = DICT_ERR

RehashIndexInTable ==
    \/ dict.rehashidx = -1
    \/ 0 <= dict.rehashidx /\ dict.rehashidx < dict.ht[0].size

\* a size is a power of two
IsPowerOfTwo(n) == \E e \in 0..n : 2 ^ e = n

RECURSIVE FirstNonEmpty(_, _, _)
FirstNonEmpty(ht, i, n) ==
    IF n = 0 \/ i >= Len(ht.table) THEN {}
    ELSE IF ht.table[i + 1] = <<>> THEN FirstNonEmpty(ht, i + 1, n)
    ELSE {i} \cup FirstNonEmpty(ht, i + 1, n - 1)

\* how many entries the buckets B of a table hold
RECURSIVE EntriesIn(_, _)
EntriesIn(ht, B) ==
    IF B = {} THEN 0
    ELSE LET b == CHOOSE x \in B : TRUE
         IN  Len(ht.table[b + 1]) + EntriesIn(ht, B \ {b})

\* C30: rehash(n) on a rehashing dict whose ht0 still has at least n
\* non-empty buckets moves all entries of exactly the first n non-empty
\* buckets at or after rehashidx into ht1, each to bucket hash(key) &
\* ht1.mask, empty buckets being skipped and not counted; ht0.used goes
\* down and ht1.used up by the number of entries moved, and the mapping
\* of keys to values is unchanged.
RehashMovesBuckets ==
    dictIsRehashing(dict) =>
        \A n \in 1..MaxRehashN :
            LET B == FirstNonEmpty(dict.ht[0], dict.rehashidx, n)
                M == UNION { ChainKeys(dict.ht[0].table[b + 1]) : b \in B }
                moved == EntriesIn(dict.ht[0], B)
            IN  Cardinality(B) = n =>
                    \A r \in { dictRehash(dict, n) } :
                        /\ ~r.fault
                        /\ dictIsRehashing(r.d)
                        /\ \A b \in 0..(dict.ht[0].size - 1) :
                               r.d.ht[0].table[b + 1] =
                                   IF b \in B THEN <<>>
                                   ELSE dict.ht[0].table[b + 1]
                        /\ TableKeys(r.d, 1) = TableKeys(dict, 1) \cup M
                        /\ \A k \in TableKeys(r.d, 1) :
                               ChainCount(
                                   r.d.ht[1].table[
                                       BitAnd(dictHashKey(r.d, k),
                                              r.d.ht[1].sizemask) + 1],
                                   k) = 1
                        /\ r.d.ht[0].used = dict.ht[0].used - moved
                        /\ r.d.ht[1].used = dict.ht[1].used + moved
                        /\ r.d.ht[0].size = dict.ht[0].size
                        /\ r.d.ht[1].size = dict.ht[1].size
                        /\ Contents(r.d) = Contents(dict)

\* a rehash that has an empty bucket to skip at rehashidx, then a chain of
\* two entries and a further bucket to move
RehashMovesBucketsWitness ==
    /\ dictIsRehashing(dict)
    /\ InTable(dict.ht[0], dict.rehashidx)
    /\ dict.ht[0].table[dict.rehashidx + 1] = <<>>
    /\ \E b \in FirstNonEmpty(dict.ht[0], dict.rehashidx, MaxRehashN) :
           Len(dict.ht[0].table[b + 1]) = 2
    /\ Cardinality(FirstNonEmpty(dict.ht[0], dict.rehashidx, MaxRehashN))
           = MaxRehashN
    /\ dictRehash(dict, MaxRehashN).d.ht[1].used = dict.ht[1].used + 3

\* a call returned with the migration done and not finalised
LeftUnfinalised(r) ==
    ~r.fault /\ dictIsRehashing(r.d) /\ r.d.ht[0].used = 0

\* C31: the migration is finalised at the point ht0.used reaches zero: no
\* rehash(n), add, find or delete call returns leaving the dict with
\* rehashidx # -1 and ht0.used = 0; when a call finalises, ht0 is the
\* former ht1 table with all entries, ht1 is reset and rehashidx = -1.
FinalisedAtZero ==
    /\ \A n \in 1..MaxRehashN : ~LeftUnfinalised(dictRehash(dict, n))
    /\ \A k \in Keys :
           /\ \A v \in Vals :
                  ~LeftUnfinalised(dictAdd(dict, k, v, dict_can_resize))
           /\ ~LeftUnfinalised(dictFind(dict, k))
           /\ ~LeftUnfinalised(dictDelete(dict, k))
    /\ \A n \in 1..MaxRehashN :
           \A r \in { dictRehash(dict, n) } :
               (dictIsRehashing(dict) /\ ~dictIsRehashing(r.d)) =>
                   /\ ~r.fault
                   /\ r.d.ht[0].size = dict.ht[1].size
                   /\ ReachableKeys(r.d) = ReachableKeys(dict)
                   /\ TableKeys(r.d, 0) = ReachableKeys(dict)
                   /\ r.d.ht[0].used = dictSize(dict)
                   /\ r.d.ht[1] = dictht
                   /\ r.d.rehashidx = -1

\* a chain without the entries of a key
RECURSIVE Without(_, _)
Without(chain, key) ==
    IF chain = <<>> THEN <<>>
    ELSE IF Head(chain).key = key THEN Without(Tail(chain), key)
    ELSE <<Head(chain)>> \o Without(Tail(chain), key)

\* table t of d2 is table t of d with the key taken out of its chains
TableWithout(d, d2, t, key) ==
    /\ d2.ht[t].size = d.ht[t].size
    /\ \A b \in 1..Len(d.ht[t].table) :
           d2.ht[t].table[b] = Without(d.ht[t].table[b], key)

\* d2 is d after the migration of exactly one bucket, the first one of
\* ht[0] that is not empty
OneBucketMoved(d, d2) ==
    LET B == FirstNonEmpty(d.ht[0], d.rehashidx, 1)
    IN  /\ Cardinality(B) = 1
        /\ dictIsRehashing(d2)
        /\ \A b \in B :
               /\ d2.rehashidx = b + 1
               /\ d2.ht[0].used = d.ht[0].used - Len(d.ht[0].table[b + 1])
               /\ d2.ht[1].used = d.ht[1].used + Len(d.ht[0].table[b + 1])
               /\ TableKeys(d2, 1) =
                      TableKeys(d, 1) \cup ChainKeys(d.ht[0].table[b + 1])
        /\ \A b \in 0..(d.ht[0].size - 1) :
               d2.ht[0].table[b + 1] =
                   IF b \in B THEN <<>> ELSE d.ht[0].table[b + 1]
        /\ d2.ht[1].size = d.ht[1].size

\* C32: mid-rehash, with no safe iterator active and ht0 not empty, each
\* single add, find or delete call first migrates exactly one non-empty
\* ht0 bucket and only then does its own lookup or mutation: the dict it
\* leaves is the dict after that migration (find), with the key taken out
\* (delete of a key), or with the key put in ht1 (add of an absent key).
StepThenOperation ==
    (dictIsRehashing(dict) /\ dict.iterators = 0 /\ dict.ht[0].used > 0) =>
        \A s \in { dictRehash(dict, 1) } :
            /\ ~s.fault
            /\ OneBucketMoved(dict, s.d)
            /\ \A k \in Keys :
                   /\ \A f \in { dictFind(dict, k) } :
                          /\ ~f.fault
                          /\ f.d = s.d
                          /\ (f.ret = NoEntry) <=> (k \notin ReachableKeys(dict))
                   /\ \A r \in { dictDelete(dict, k) } :
                          /\ ~r.fault
                          /\ r.d.rehashidx = s.d.rehashidx
                          /\ TableWithout(s.d, r.d, 0, k)
                          /\ TableWithout(s.d, r.d, 1, k)
                   /\ \A v \in Vals :
                          \A a \in { dictAdd(dict, k, v, dict_can_resize) } :
                              /\ ~a.fault
                              /\ a.d.rehashidx = s.d.rehashidx
                              /\ a.d.ht[0] = s.d.ht[0]
                              /\ IF k \in ReachableKeys(dict)
                                 THEN a.d = s.d
                                 ELSE /\ TableWithout(a.d, s.d, 1, k)
                                      /\ k \in TableKeys(a.d, 1)

\* mid-rehash with two non-empty buckets left in ht[0] behind an empty
\* one, entries in ht[1] already, a key to find in either generation and a
\* key to add
StepThenOperationWitness ==
    /\ dictIsRehashing(dict)
    /\ dict.iterators = 0
    /\ dict.rehashidx > 0
    /\ InTable(dict.ht[0], dict.rehashidx)
    /\ dict.ht[0].table[dict.rehashidx + 1] = <<>>
    /\ Cardinality(FirstNonEmpty(dict.ht[0], dict.rehashidx, 2)) = 2
    /\ dict.ht[1].used > 0
    /\ \E k \in Keys \ ReachableKeys(dict) :
           dictAdd(dict, k, MaxVal, dict_can_resize).ret = DICT_OK
    /\ \E k \in TableKeys(dict, 0) :
           dictFind(dict, k).d.ht[0].used < dict.ht[0].used

\* C33: after any sequence of getSafeIterator, next, releaseIterator and
\* dict operations, the count of active safe iterators is never negative
\* and is the number of safe iterators acquired and not yet released.
SafeIteratorsCounted ==
    /\ dict.iterators >= 0
    /\ dict.iterators = IF it.held /\ it.safe = 1 THEN 1 ELSE 0

\* the keys of a chain go down from its head on
Descending(chain) ==
    \A p \in 1..(Len(chain) - 1) : chain[p].key > chain[p + 1].key

\* C34: a successful add of key k puts the new entry at the head of the
\* chain of bucket hash(k) & mask in the generation that receives inserts
\* and leaves the entries that were in this chain in their order; so in a
\* generation that was never the target of a migration (here the first
\* table, of 4 buckets) every chain has its entries most recently inserted
\* first, which for keys inserted as 1, 2, 3, ... is by descending key.
AddAtHead ==
    /\ dictSize(dict) < MaxForce =>
           \A k \in { dictSize(dict) + 1 } :
               \A a \in { dictAdd(dict, k, k, dict_can_resize) } :
                   LET t == IF dictIsRehashing(a.d) THEN 1 ELSE 0
                       b == BitAnd(dictHashKey(a.d, k), a.d.ht[t].sizemask)
                       before == _dictKeyIndex(StepIfRehashing(dict).d, k,
                                               dict_can_resize).d
                   IN  /\ ~a.fault
                       /\ a.ret = DICT_OK
                       /\ a.d.ht[t].table[b + 1] =
                              <<[key |-> k, v |-> k]>>
                                  \o before.ht[t].table[b + 1]
                       /\ \A c \in 0..(a.d.ht[t].size - 1) :
                              c # b => a.d.ht[t].table[c + 1]
                                           = before.ht[t].table[c + 1]
                       /\ a.d.ht[1 - t] = before.ht[1 - t]
                       /\ (~dictIsRehashing(dict) /\ ~dictIsRehashing(a.d)
                              /\ dict.ht[0].size > 0) =>
                              Tail(a.d.ht[0].table[b + 1])
                                  = dict.ht[0].table[b + 1]
    /\ dict.ht[0].size = DICT_HT_INITIAL_SIZE =>
           \A c \in 1..Len(dict.ht[0].table) :
               Descending(dict.ht[0].table[c])

\* resizing is off and the first table has a chain of three or more
\* entries with the key added last at its head
AddAtHeadWitness ==
    /\ ~dict_can_resize
    /\ ~dictIsRehashing(dict)
    /\ dict.ht[0].size = DICT_HT_INITIAL_SIZE
    /\ \E c \in 1..Len(dict.ht[0].table) :
           /\ Len(dict.ht[0].table[c]) >= 3
           /\ Head(dict.ht[0].table[c]).key = dictSize(dict)

\* the number the k low bits of x spell when read in reverse
RECURSIVE RevBits(_, _)
RevBits(x, k) ==
    IF k = 0 THEN 0
    ELSE (x % 2) * 2 ^ (k - 1) + RevBits(x \div 2, k - 1)

\* the number of bits of the mask of a table of this size
RECURSIVE MaskBits(_)
MaskBits(size) == IF size <= 1 THEN 0 ELSE 1 + MaskBits(size \div 2)

\* the reverse-binary successor of the bucket index of cursor c: all bits
\* above the mask set, the bits reversed, 1 added, the bits reversed back
NextCursor(c, size) ==
    RevBits((RevBits(c % size, MaskBits(size)) + 1) % size, MaskBits(size))

\* C35: on a non-empty dict that is not rehashing, one scan(cursor, fn)
\* call hands fn exactly the entries of bucket cursor & mask of ht0, once
\* each, and returns the reverse-binary successor of the bucket index; on
\* an empty dict it returns 0 and hands fn nothing.
ScanOneBucket ==
    \A c \in 0..MaxCursor :
        \A r \in { dictScan(dict, BitsOf(c, 0)) } :
            IF dictSize(dict) = 0
            THEN ~r.fault /\ r.ret = {} /\ r.seen = <<>>
            ELSE ~dictIsRehashing(dict) =>
                     /\ ~r.fault
                     /\ r.bucket = c % dict.ht[0].size
                     /\ r.seen = ChainKeySeq(
                                     dict.ht[0].table[
                                         (c % dict.ht[0].size) + 1])
                     /\ r.ret = BitsOf(NextCursor(c, dict.ht[0].size), 0)

\* the keys of the buckets of a table whose index has the low bits of c
\* under the mask m0
KeysUnder(ht, c, m0) ==
    UNION { ChainKeys(ht.table[b + 1]) :
              b \in { x \in 0..(Len(ht.table) - 1) :
                        BitAnd(x, m0) = BitAnd(c, m0) } }

\* C36: mid-rehash, one scan(cursor, fn) call visits the entries of bucket
\* cursor & m0 of the smaller generation and those of every bucket of the
\* larger generation whose index has the same low bits, each exactly once,
\* and returns the next cursor computed from the smaller mask.
ScanMidRehash ==
    (dictIsRehashing(dict) /\ dictSize(dict) > 0) =>
        LET small == IF dict.ht[0].size > dict.ht[1].size THEN 1 ELSE 0
            m0 == dict.ht[small].sizemask
        IN  \A c \in 0..MaxCursor :
                \A r \in { dictScan(dict, BitsOf(c, 0)) } :
                    /\ ~r.fault
                    /\ Range(r.seen) =
                           KeysUnder(dict.ht[small], c, m0)
                               \cup KeysUnder(dict.ht[1 - small], c, m0)
                    /\ Len(r.seen) = Cardinality(Range(r.seen))
                    /\ r.ret = BitsOf(NextCursor(c, dict.ht[small].size), 0)

\* a call on a rehashing dict put nothing in ht[0]: as long as the rehash
\* that was going on is not finalised by the call (neither by the step the
\* call starts with, which makes ht[1] the new ht[0] and may be followed
\* by an expansion, nor later), ht[0] gained no entry
NothingAddedToFirst(d, r) ==
    /\ ~r.fault
    /\ (dictIsRehashing(_dictRehashStep(d).d) /\ dictIsRehashing(r.d)) =>
           /\ r.d.ht[0].used <= d.ht[0].used
           /\ TableKeys(r.d, 0) \subseteq TableKeys(d, 0)

\* C37: while the dict is rehashing no operation adds an entry to ht0 (new
\* keys go to ht1, ht0.used never goes up) and every ht0 bucket below
\* rehashidx is empty; so whenever rehash runs with ht0.used > 0,
\* ht0.size > rehashidx holds and the loop that skips empty buckets stays
\* inside the table, for any interleaving of add, delete, replace, expand,
\* resize and rehash, with and without safe iterators.
RehashStaysInTable ==
    /\ dictIsRehashing(dict) =>
           /\ \A b \in 0..(dict.ht[0].size - 1) :
                  b < dict.rehashidx => dict.ht[0].table[b + 1] = <<>>
           /\ dict.ht[0].used > 0 =>
                  /\ dict.ht[0].size > dict.rehashidx
                  /\ SkipEmpty(dict.ht[0], dict.rehashidx) # -1
           /\ \A k \in SafeKeys, v \in Vals :
                  /\ NothingAddedToFirst(
                         dict, dictAdd(dict, k, v, dict_can_resize))
                  /\ NothingAddedToFirst(
                         dict, dictReplace(dict, k, v, dict_can_resize))
                  /\ NothingAddedToFirst(dict, dictDelete(dict, k))
    /\ \A n \in 1..MaxRehashN : ~dictRehash(dict, n).fault
    /\ ~_dictRehashStep(dict).fault

\* mid-rehash with a safe iterator that was advanced: part of ht[0] is
\* migrated, and a key was added to ht[1] while the rehash steps are
\* suspended
RehashStaysInTableWitness ==
    /\ dictIsRehashing(dict)
    /\ dict.iterators > 0
    /\ it.held /\ it.safe = 1 /\ it.ops > 0
    /\ dict.rehashidx > 0
    /\ dict.ht[0].used > 0
    /\ dict.ht[1].used > 1
    /\ \E k \in TableKeys(dict, 1) :
           BitAnd(dictHashKey(dict, k), dict.ht[0].sizemask) >= dict.rehashidx

\* C38: between the first next() on an unsafe iterator and its release,
\* calls with read-only intent (find, fetchValue, next) never make the
\* fingerprint assertion of the release fail, in any state of the dict,
\* mid-rehash included: when the release would pass now, it passes after
\* one more such call too.
ReadOnlyKeepsFingerprint ==
    (/\ it.held
     /\ it.safe = 0
     /\ ~(it.index = -1 /\ it.table = 0)
     /\ ~dictReleaseIterator(dict, it).fault) =>
        /\ \A k \in IterKeys :
               /\ ~dictReleaseIterator(dictFind(dict, k).d, it).fault
               /\ ~dictReleaseIterator(dictFetchValue(dict, k).d, it).fault
        /\ \A n \in { dictNext(dict, it) } :
               ~dictReleaseIterator(n.d, n.it).fault

====
